---------------------------- MODULE Spec2Model ----------------------------
(***************************************************************************)
(* Stock-Market-Ticker: the daily pipeline (main.py), its scan             *)
(* orchestrator (RecommendationEngine.run_full_analysis), the run-state    *)
(* file (state_manager.py) and the auto-pilot supervisor (auto_pilot.py).  *)
(*                                                                         *)
(* Three specifications share the variables and the pipeline's actions:    *)
(*   Spec          pipeline runs started one after the other by an         *)
(*                 operator, over a universe large enough for the          *)
(*                 every-10 incremental save;                              *)
(*   AutoPilotSpec the auto-pilot loop starting a pipeline process         *)
(*                 (Popen, not waited for), the midnight reset and the     *)
(*                 watchdog, over a small universe;                        *)
(*   RaceSpec      pipeline processes started by launchers that do not     *)
(*                 look at each other (auto_pilot.py, scheduler_daemon.py) *)
(*                 and so run at the same time, over a small universe.     *)
(* Five more specifications exercise one unit each, on inputs drawn from   *)
(* bounded sets, while the pipeline is idle:                               *)
(*   LedgerSpec    PortfolioManager.update_portfolio over days;            *)
(*   ScoreSpec     RecommendationEngine.process_stock;                     *)
(*   RankSpec      steps 3 to 6 of run_full_analysis on result sets larger *)
(*                 than the top candidates;                                *)
(*   ForecastSpec  the Forecaster of an engine over its forecast loop;     *)
(*   AllocSpec     the two budget allocations (run_full_analysis and the   *)
(*                 dashboard's apply_allocation).                          *)
(* Scores are integers in thousandths (0.66 is 660).  Time is counted in   *)
(* ticks of TickSeconds seconds.                                           *)
(***************************************************************************)
EXTENDS Integers, Sequences, FiniteSets, TLC

\* ------------------------------------------------------------- bounds
NumStocks == 11          \* entities returned by get_nse_equity_list (Spec)
ApNumStocks == 1         \* the same, in AutoPilotSpec and RaceSpec
MaxLaunches == 2         \* pipeline processes started in one behaviour
ApMaxLaunches == 1       \* the same, by the auto-pilot in AutoPilotSpec
MaxFailures == 1         \* entities that fail to score in one run
MaxTicks == 2            \* clock ticks in one behaviour
MaxDays == 2             \* calendar days in one behaviour
TickSeconds == 1800      \* seconds in one clock tick
TopN == 2                \* config top_n_stocks
Budget == 10000          \* config monthly_budget
ForecastWeight == 200    \* config weights.forecast, thousandths

\* -------------------------------------------------- program constants
SaveEvery == 10          \* strategy.py: if count % 10 == 0
TopK == 20               \* strategy.py: top_candidates = results[:20]
StuckTimeout == 1800     \* auto_pilot.py: check_stuck(timeout_seconds=1800)
BoostAbove == 500        \* strategy.py: if final_score > 0.5
ScoreCap == 990          \* strategy.py: min(0.99, ...)

STATUS_IDLE == "IDLE"
STATUS_RUNNING == "RUNNING"
STATUS_COMPLETED == "COMPLETED"
STATUS_FAILED == "FAILED"
STAGE_FETCH == "FETCH"
STAGE_MODEL == "MODEL"

Statuses == {STATUS_IDLE, STATUS_RUNNING, STATUS_COMPLETED, STATUS_FAILED}
Procs == 1 .. MaxLaunches
NoState == [status |-> "NONE"]
NoPid == 0
NoDate == 0

VARIABLES
  stateFile,     \* data/pipeline_state.json as load_state returns it
  analysisFile,  \* data/full_analysis.csv: its rows (<<>>: absent or empty)
  recsFile,      \* data/recommendations.csv: its rows
  equityList,    \* what get_nse_equity_list returns
  now,           \* time.time(), in ticks
  today,         \* datetime.now() date
  resetDue,      \* the 00:00 job of schedule is pending
  launched,      \* pipeline processes started so far
  pc,            \* per process: position in main()
  args,          \* per process: command line (mode, limit)
  ld,            \* per process: state loaded by a state_manager call
  wr,            \* per process: save_to_csv has opened (truncated) its file
  todo,          \* per process: stocks_to_process
  results,       \* per process: results
  count,         \* per process: count
  current_total, \* per process: current_total
  rec_df,        \* per process: final_recommendations / rec_df
  fails,         \* per process: entities that failed to score in this run
  submitted,     \* per process: tickers submitted to process_stock
  okSet,         \* per process: tickers whose future returned a record
  fcFetched,     \* per process: tickers whose history the forecast step fetched
  fileAtStart,   \* per process: analysisFile as the run found it
  recsAtStart,   \* per process: recsFile when the process started
  entityExc,     \* per process: an exception was raised while scoring an entity
  ap_pc,         \* auto-pilot: position in main_loop
  ap_state,      \* auto-pilot: state (loaded at the top of the iteration)
  ap_status,     \* auto-pilot: status
  ap_ld,         \* auto-pilot: state loaded by a state_manager call
  stuck_pid,     \* auto-pilot: stuck_pid
  historyFile,   \* data/portfolio_history.csv: its rows
  history_df,    \* update_portfolio: history_df of the last call
  current_rec_df,\* update_portfolio: its argument in the last call
  new_df,        \* update_portfolio: what the last call returned
  updates,       \* update_portfolio calls so far
  weights,       \* config['weights'], in thousandths
  row_arg,       \* process_stock: what the fetches returned for its row
  scored,        \* process_stock: what the last call returned
  results_in,    \* ranking: results as the scan left them
  ranking,       \* ranking: "none", or the mode of the ranking that ran
  forecast_for,  \* ranking: tickers get_forecast_score was called for
  results_out,   \* ranking: results as written to the result file
  recs_out,      \* ranking: final_recommendations
  rerun_out,     \* ranking: results as a second full run writes them
  engine,        \* RecommendationEngine instances built so far
  model,         \* Forecaster.model: the entity whose history it was fit on
  calls,         \* get_forecast_score calls of this engine, in order
  stock_list,    \* allocation: the ranked top-N list it is given
  budget_arg,    \* allocation: the budget it is given
  variant,       \* allocation: "none", or the variant that ran
  allocated,     \* allocation: the list it returned
  df_input,      \* run_analysis: the table it is given
  scored_df,     \* run_analysis: df after train_and_predict
  candidates,    \* run_analysis: candidates as returned
  final_recs,    \* run_analysis: final_recs
  info_arg,      \* score_fundamental: the info it is given
  fund_tally     \* score_fundamental: score, checks and the value returned

fileVars == <<analysisFile, recsFile>>
envVars == <<equityList, now, today, resetDue>>
scanVars == <<wr, todo, results, count, current_total, rec_df, fails,
              submitted, okSet, fcFetched, fileAtStart, entityExc>>
procVars == <<launched, pc, args, ld, recsAtStart>>
apVars == <<ap_pc, ap_state, ap_status, ap_ld, stuck_pid>>
ledgerVars == <<historyFile, history_df, current_rec_df, new_df, updates>>
scoreVars == <<weights, row_arg, scored>>
rankVars == <<results_in, ranking, forecast_for, results_out, recs_out,
              rerun_out>>
forecastVars == <<engine, model, calls>>
allocVars == <<stock_list, budget_arg, variant, allocated>>
mediumVars == <<df_input, scored_df, candidates, final_recs>>
fundVars == <<info_arg, fund_tally>>
benchVars == <<ledgerVars, scoreVars, rankVars, forecastVars, allocVars,
              mediumVars,
              fundVars>>
pipelineVars == <<stateFile, fileVars, scanVars, procVars, apVars>>
vars == <<stateFile, fileVars, envVars, scanVars, procVars, apVars, benchVars>>

\* ------------------------------------------------- state_manager.py
_get_default_state ==
  [status |-> STATUS_IDLE, stage |-> "NONE", last_heartbeat |-> 0,
   total_scanned |-> 0, pid |-> NoPid,
   flags |-> [fetch_complete |-> FALSE, model_complete |-> FALSE,
              big_bets_complete |-> FALSE],
   run_date |-> NoDate]

load_state == stateFile

update_heartbeat(state, cnt, pid, t) ==
  [state EXCEPT !.last_heartbeat = t,
                !.total_scanned = IF cnt = -1 THEN @ ELSE cnt,
                !.pid = IF pid = NoPid THEN @ ELSE pid]

set_status(state, status, stage, t) ==
  [state EXCEPT !.status = status,
                !.stage = IF stage = "NONE" THEN @ ELSE stage,
                !.last_heartbeat = t]

\* the status test forgotten
check_stuck_any_status(state, t) ==
  (t - state.last_heartbeat) * TickSeconds > StuckTimeout

check_stuck(state, t) ==
  /\ state.status = STATUS_RUNNING
  /\ (t - state.last_heartbeat) * TickSeconds > StuckTimeout

mark_flag(state, flag_name) ==
  [state EXCEPT !.flags = [@ EXCEPT ![flag_name] = TRUE]]


\* ------------------------------------------------------ src/utils.py
TextFields == {"Pre_Score", "Final_Score", "Forecast_Score", "Close"}

\* What csv.DictWriter puts on disk for one in-memory row: every value as
\* its text; which values were numbers in memory is not recorded.
CsvRow(r) == [f \in DOMAIN r \ {"text"} |-> r[f]]

\* What csv.DictReader gives back for one row on disk: every value a string.
ParsedRow(row) ==
  [f \in DOMAIN row \cup {"text"} |->
     IF f = "text" THEN TextFields ELSE row[f]]

CsvRows(data_list) == [i \in 1 .. Len(data_list) |-> CsvRow(data_list[i])]

read_csv_to_list(file) == [i \in 1 .. Len(file) |-> ParsedRow(file[i])]

Tickers(rows) == {rows[i].Ticker : i \in 1 .. Len(rows)}

\* ----------------------------------------------- the data provider
PreScoreOf(t) == 300 + 60 * (t % 5)
ForecastOf(t) == 500 * (t % 3)
PriceOf(t) == 100 * t

\* ---------------------------------- strategy.py: process_stock
\* What a future can hand to the completion loop: the record of lines 61-97
\* ("ok"), None, or an exception.  The pipeline specifications take all three
\* as possible, whatever the analyzer of this source makes of a row; what
\* process_stock returns for a given row is modelled by process_stock below.
Outcomes == {"ok", "none", "raise"}

ScoredEntity(t) ==
  [Ticker |-> t, Pre_Score |-> PreScoreOf(t), Final_Score |-> PreScoreOf(t),
   Forecast_Score |-> 0, Close |-> PriceOf(t), text |-> {}]

\* results after the completion loop has collected the future of ticker t
CollectResult(res, t, outcome) ==
  IF outcome = "ok" THEN Append(res, ScoredEntity(t)) ELSE res

\* the try/except around future.result() forgotten
AfterCollect_unguarded(outcome) ==
  IF outcome = "raise" THEN "failing" ELSE "heartbeat"

\* where the completion loop goes after collecting a future
AfterCollect(outcome) == "heartbeat"

\* -------------------------- strategy.py: run_full_analysis, pure parts
Shuffles(list) ==
  {list, [i \in 1 .. Len(list) |-> list[Len(list) + 1 - i]]}

Take(list, n) == SubSeq(list, 1, IF n < Len(list) THEN n ELSE Len(list))

Limited(list, limit) == IF limit # 0 THEN Take(list, limit) ELSE list

\* the filter forgotten: everything is scanned again
stocks_to_process_unfiltered(stocks_list, processed_tickers) == stocks_list

stocks_to_process(stocks_list, processed_tickers) ==
  SelectSeq(stocks_list, LAMBDA t : t \notin processed_tickers)

\* list.sort(key=..., reverse=True): stable, descending
RECURSIVE InsertDesc(_, _, _)
InsertDesc(r, sorted, f) ==
  IF sorted = <<>> THEN <<r>>
  ELSE IF Head(sorted)[f] >= r[f]
       THEN <<Head(sorted)>> \o InsertDesc(r, Tail(sorted), f)
       ELSE <<r>> \o sorted

RECURSIVE SortDesc(_, _)
SortDesc(rows, f) ==
  IF rows = <<>> THEN <<>>
  ELSE InsertDesc(rows[Len(rows)],
                  SortDesc(SubSeq(rows, 1, Len(rows) - 1), f), f)

FloatPre(rows) ==
  [i \in 1 .. Len(rows) |-> [rows[i] EXCEPT !.text = @ \ {"Pre_Score"}]]

Min(a, b) == IF a < b THEN a ELSE b

\* the cap forgotten: the boost is a plain multiplication
FinalScore_uncapped(pre, forecast_score) ==
  LET final_score == pre + (weights.forecast * forecast_score) \div 1000
  IN IF final_score > BoostAbove
     THEN (final_score * 12) \div 10
     ELSE final_score

FinalScore(pre, forecast_score) ==
  LET final_score == pre + (weights.forecast * forecast_score) \div 1000
  IN IF final_score > BoostAbove
     THEN Min(ScoreCap, (final_score * 12) \div 10)
     ELSE final_score

\* the else branch of the merge forgotten: a row outside the top
\* candidates keeps the Final_Score it came with
Forecasted_keep_stale(sorted) ==
  LET top == Tickers(Take(sorted, TopK))
      merged == [i \in 1 .. Len(sorted) |->
        LET r == sorted[i] IN
        IF r.Ticker \in top
        THEN [r EXCEPT !.Forecast_Score = ForecastOf(r.Ticker),
                       !.Final_Score =
                          FinalScore(r.Pre_Score, ForecastOf(r.Ticker)),
                       !.text = @ \ {"Forecast_Score", "Final_Score"}]
        ELSE r]
  IN SortDesc(merged, "Final_Score")

\* the final score computed on the Final_Score the row came with
Forecasted_compounding(sorted) ==
  LET top == Tickers(Take(sorted, TopK))
      merged == [i \in 1 .. Len(sorted) |->
        LET row == sorted[i] IN
        IF row.Ticker \in top
        THEN [row EXCEPT !.Forecast_Score = ForecastOf(row.Ticker),
                         !.Final_Score =
                            FinalScore(row.Final_Score, ForecastOf(row.Ticker)),
                         !.text = @ \ {"Forecast_Score", "Final_Score"}]
        ELSE [row EXCEPT !.Final_Score = row.Pre_Score,
                         !.text = @ \ {"Final_Score"}]]
  IN SortDesc(merged, "Final_Score")

\* steps 4 and 5: forecast the top candidates, merge, re-sort
Forecasted(sorted) ==
  LET top == Tickers(Take(sorted, TopK))
      merged == [i \in 1 .. Len(sorted) |->
        LET row == sorted[i] IN
        IF row.Ticker \in top
        THEN [row EXCEPT !.Forecast_Score = ForecastOf(row.Ticker),
                         !.Final_Score =
                            FinalScore(row.Pre_Score, ForecastOf(row.Ticker)),
                         !.text = @ \ {"Forecast_Score", "Final_Score"}]
        ELSE [row EXCEPT !.Final_Score = row.Pre_Score,
                         !.text = @ \ {"Final_Score"}]]
  IN SortDesc(merged, "Final_Score")

\* skip_forecast ignored: the forecast step always runs
Ranked_forecast_always(res, skip_forecast) ==
  Forecasted(SortDesc(FloatPre(res), "Pre_Score"))

Ranked(res, skip_forecast) ==
  LET sorted == SortDesc(FloatPre(res), "Pre_Score")
  IN IF skip_forecast THEN sorted ELSE Forecasted(sorted)

\* int(allocation / price) rounded up instead of down
Quantity_rounded_up(allocation, price) ==
  IF price > 0 THEN (allocation + price - 1) \div price ELSE 0

\* int(allocation / price) if price > 0 else 0
Quantity(allocation, price) ==
  IF price > 0 THEN allocation \div price ELSE 0

\* step 6: equal split of the budget over the top N
equal_split(top_n, budget) ==
  [i \in 1 .. Len(top_n) |->
     [f \in DOMAIN top_n[i] \cup {"Allocation", "Qty"} |->
        IF f = "Allocation" THEN budget \div Len(top_n)
        ELSE IF f = "Qty"
             THEN Quantity(budget \div Len(top_n), top_n[i].Close)
             ELSE top_n[i][f]]]

Allocation(ranked) == equal_split(Take(ranked, TopN), Budget)

\* ------------------------------------------------ process bookkeeping
Modes == {"fetch-only", "analyze-only", "full"}
Limits == {0}

Alive(p) == pc[p] \notin {"off", "done", "raised", "killed"}

skip_fetch(p) == args[p].mode = "analyze-only"
\* --fetch-only handled like a full run
skip_forecast_never(p) == FALSE

skip_forecast(p) == args[p].mode = "fetch-only"

\* the locals of a process that is not running (they die with it)
NoLocals(p) ==
  /\ wr' = [wr EXCEPT ![p] = FALSE]
  /\ todo' = [todo EXCEPT ![p] = <<>>]
  /\ results' = [results EXCEPT ![p] = <<>>]
  /\ count' = [count EXCEPT ![p] = 0]
  /\ current_total' = [current_total EXCEPT ![p] = 0]
  /\ rec_df' = [rec_df EXCEPT ![p] = <<>>]
  /\ fails' = [fails EXCEPT ![p] = 0]
  /\ submitted' = [submitted EXCEPT ![p] = {}]
  /\ okSet' = [okSet EXCEPT ![p] = {}]
  /\ fcFetched' = [fcFetched EXCEPT ![p] = {}]
  /\ fileAtStart' = [fileAtStart EXCEPT ![p] = <<>>]
  /\ entityExc' = [entityExc EXCEPT ![p] = FALSE]
  /\ args' = [args EXCEPT ![p] = [mode |-> "full", limit |-> 0]]

Exits(nextPc) == nextPc \in {"done", "raised", "killed"}

\* A state_manager call of process p: load_state, then (in a later step)
\* save_state of the loaded state as changed by the call.
StateWrite(p, newState, nextPc) ==
  IF ld[p] = NoState
  THEN /\ ld' = [ld EXCEPT ![p] = load_state]
       /\ UNCHANGED <<stateFile, pc, scanVars, args>>
  ELSE /\ stateFile' = newState
       /\ ld' = [ld EXCEPT ![p] = NoState]
       /\ pc' = [pc EXCEPT ![p] = nextPc]
       /\ IF Exits(nextPc) THEN NoLocals(p) ELSE UNCHANGED <<scanVars, args>>

\* save_to_csv of process p: open(path, 'w') empties the file, then (in a
\* later step) the rows are written.  An empty data_list returns at once.
CsvWrite(p, file, data_list, nextPc) ==
  IF data_list = <<>>
  THEN /\ pc' = [pc EXCEPT ![p] = nextPc]
       /\ UNCHANGED <<file, wr>>
  ELSE IF ~wr[p]
  THEN /\ file' = <<>>
       /\ wr' = [wr EXCEPT ![p] = TRUE]
       /\ UNCHANGED pc
  ELSE /\ file' = CsvRows(data_list)
       /\ wr' = [wr EXCEPT ![p] = FALSE]
       /\ pc' = [pc EXCEPT ![p] = nextPc]

\* subprocess: python main.py <flags>
StartProcess(p, mode, limit) ==
  /\ p = launched + 1
  /\ p \in Procs
  /\ launched' = p
  /\ pc' = [pc EXCEPT ![p] = "startup"]
  /\ args' = [args EXCEPT ![p] = [mode |-> mode, limit |-> limit]]
  /\ recsAtStart' = [recsAtStart EXCEPT ![p] = recsFile]

\* ------------------------------------------------------ main.py: main
MainStartup(p) ==
  /\ pc[p] = "startup"
  /\ StateWrite(p, set_status(ld[p], STATUS_RUNNING, "STARTUP", now),
                "register")
  /\ UNCHANGED <<benchVars, fileVars, envVars, launched, recsAtStart, apVars>>

MainRegister(p) ==
  /\ pc[p] = "register"
  /\ StateWrite(p, update_heartbeat(ld[p], -1, p, now), "stage")
  /\ UNCHANGED <<benchVars, fileVars, envVars, launched, recsAtStart, apVars>>

MainStage(p) ==
  /\ pc[p] = "stage"
  /\ StateWrite(p, set_status(ld[p], STATUS_RUNNING,
                   IF args[p].mode = "fetch-only" THEN STAGE_FETCH
                   ELSE STAGE_MODEL, now),
                "scan_init")
  /\ UNCHANGED <<benchVars, fileVars, envVars, launched, recsAtStart, apVars>>

MainFlag(p) ==
  /\ pc[p] = "flag"
  /\ StateWrite(p, mark_flag(ld[p],
                   IF args[p].mode = "fetch-only" THEN "fetch_complete"
                   ELSE "model_complete"),
                "complete")
  /\ UNCHANGED <<benchVars, fileVars, envVars, launched, recsAtStart, apVars>>

MainComplete(p) ==
  /\ pc[p] = "complete"
  /\ IF args[p].mode = "fetch-only"
     THEN StateWrite(p, set_status(ld[p], STATUS_COMPLETED, STAGE_FETCH, now),
                     "done")
     ELSE IF rec_df[p] = <<>>
     THEN StateWrite(p, set_status(ld[p], STATUS_COMPLETED, "NO_RESULTS", now),
                     "done")
     ELSE StateWrite(p, set_status(ld[p], STATUS_COMPLETED, "NONE", now),
                     "post")
  /\ UNCHANGED <<benchVars, fileVars, envVars, launched, recsAtStart, apVars>>

\* lines 105-127: snapshots, portfolio ledger, notification, cloud sync;
\* outside the try block, so an exception here leaves main() at once
MainPost(p) ==
  /\ pc[p] = "post"
  /\ \E ok \in BOOLEAN : pc' = [pc EXCEPT ![p] = IF ok THEN "done" ELSE "raised"]
  /\ NoLocals(p)
  /\ UNCHANGED <<benchVars, stateFile, fileVars, envVars, launched, ld, recsAtStart,
                 apVars>>

\* an exception raised inside the try block, outside process_stock
Raise(p) ==
  /\ pc[p] \in {"scan_init", "rank"}
  /\ pc' = [pc EXCEPT ![p] = "failing"]
  /\ UNCHANGED <<benchVars, stateFile, fileVars, envVars, scanVars, launched, args, ld,
                 recsAtStart, apVars>>

\* except Exception: sm.set_status(sm.STATUS_FAILED); raise e
MainFailing(p) ==
  /\ pc[p] = "failing"
  /\ StateWrite(p, set_status(ld[p], STATUS_FAILED, "NONE", now), "raised")
  /\ UNCHANGED <<benchVars, fileVars, envVars, launched, recsAtStart, apVars>>

\* -------------------------------- strategy.py: run_full_analysis
ScanInit(p) ==
  /\ pc[p] = "scan_init"
  /\ \E shuffled \in Shuffles(equityList) :
       LET stocks_list == Limited(shuffled, args[p].limit)
           existing == read_csv_to_list(analysisFile)
           processed_tickers == Tickers(existing)
           to_process == stocks_to_process(stocks_list, processed_tickers)
       IN /\ results' = [results EXCEPT ![p] = existing]
          /\ todo' = [todo EXCEPT ![p] = to_process]
          /\ current_total' =
               [current_total EXCEPT ![p] = Cardinality(processed_tickers)]
          /\ submitted' = [submitted EXCEPT ![p] = Tickers(
               [i \in 1 .. Len(to_process) |-> [Ticker |-> to_process[i]]])]
          /\ pc' = [pc EXCEPT ![p] =
               IF to_process = <<>> /\ ~skip_fetch(p) THEN "final_save"
               ELSE IF Len(to_process) = 0 THEN "final_save"
               ELSE "collect"]
  /\ fileAtStart' = [fileAtStart EXCEPT ![p] = analysisFile]
  /\ count' = [count EXCEPT ![p] = 0]
  /\ UNCHANGED <<benchVars, stateFile, fileVars, envVars, wr, rec_df, fails, okSet,
                 fcFetched, entityExc, launched, args, ld, recsAtStart,
                 apVars>>

LoopNext(p) == IF count[p] < Len(todo[p]) THEN "collect" ELSE "final_save"

\* the period doubled
SaveDue_every_20(cnt, n) == cnt % (2 * SaveEvery) = 0 /\ n > 0

\* if count % 10 == 0: if len(results) > 0: the incremental save is due
SaveDue(cnt, n) == cnt % SaveEvery = 0 /\ n > 0

\* one iteration of the as_completed loop, up to count += 1.  Futures
\* complete in any order; the list was shuffled, so its order stands for it.
Collect(p) ==
  /\ pc[p] = "collect"
  /\ \E outcome \in Outcomes :
       LET t == todo[p][count[p] + 1] IN
       /\ outcome = "ok" \/ fails[p] < MaxFailures
       /\ results' = [results EXCEPT ![p] = CollectResult(@, t, outcome)]
       /\ current_total' = [current_total EXCEPT ![p] =
                              IF outcome = "ok" THEN @ + 1 ELSE @]
       /\ okSet' = [okSet EXCEPT ![p] =
                      IF outcome = "ok" THEN @ \cup {t} ELSE @]
       /\ fails' = [fails EXCEPT ![p] = IF outcome = "ok" THEN @ ELSE @ + 1]
       /\ entityExc' = [entityExc EXCEPT ![p] = @ \/ outcome = "raise"]
       /\ pc' = [pc EXCEPT ![p] = AfterCollect(outcome)]
  /\ count' = [count EXCEPT ![p] = @ + 1]
  /\ UNCHANGED <<benchVars, stateFile, fileVars, envVars, wr, todo, rec_df, submitted,
                 fcFetched, fileAtStart, launched, args, ld, recsAtStart,
                 apVars>>

\* sm.update_heartbeat(count=current_total)
Heartbeat(p) ==
  /\ pc[p] = "heartbeat"
  /\ StateWrite(p, update_heartbeat(ld[p], current_total[p], NoPid, now),
                IF SaveDue(count[p], Len(results[p]))
                THEN "inc_save" ELSE LoopNext(p))
  /\ UNCHANGED <<benchVars, fileVars, envVars, launched, recsAtStart, apVars>>

\* the incremental save_to_csv(results, analysis_path)
IncSave(p) ==
  /\ pc[p] = "inc_save"
  /\ CsvWrite(p, analysisFile, results[p], LoopNext(p))
  /\ UNCHANGED <<benchVars, stateFile, recsFile, envVars, todo, results, count,
                 current_total, rec_df, fails, submitted, okSet, fcFetched,
                 fileAtStart, entityExc, launched, args, ld, recsAtStart,
                 apVars>>

\* "Final Save of Pre-Analysis", then: if not results: return []
FinalSave(p) ==
  /\ pc[p] = "final_save"
  /\ CsvWrite(p, analysisFile, results[p],
              IF results[p] = <<>> THEN "flag" ELSE "rank")
  /\ rec_df' = [rec_df EXCEPT ![p] = <<>>]
  /\ UNCHANGED <<benchVars, stateFile, recsFile, envVars, todo, results, count,
                 current_total, fails, submitted, okSet, fcFetched,
                 fileAtStart, entityExc, launched, args, ld, recsAtStart,
                 apVars>>

\* steps 3 to 6: sort, forecast the top candidates, merge, allocate
Rank(p) ==
  /\ pc[p] = "rank"
  /\ LET ranked == Ranked(results[p], skip_forecast(p)) IN
       /\ results' = [results EXCEPT ![p] = ranked]
       /\ rec_df' = [rec_df EXCEPT ![p] = Allocation(ranked)]
  /\ fcFetched' = [fcFetched EXCEPT ![p] =
       IF skip_forecast(p) THEN {}
       ELSE Tickers(Take(SortDesc(FloatPre(results[p]), "Pre_Score"), TopK))]
  /\ pc' = [pc EXCEPT ![p] = "save_recs"]
  /\ UNCHANGED <<benchVars, stateFile, fileVars, envVars, wr, todo, count, current_total,
                 fails, submitted, okSet, fileAtStart, entityExc, launched,
                 args, ld, recsAtStart, apVars>>

\* save_to_csv(final_recommendations, recommendations.csv)
SaveRecs(p) ==
  /\ pc[p] = "save_recs"
  /\ CsvWrite(p, recsFile, rec_df[p], "save_full")
  /\ UNCHANGED <<benchVars, stateFile, analysisFile, envVars, todo, results, count,
                 current_total, rec_df, fails, submitted, okSet, fcFetched,
                 fileAtStart, entityExc, launched, args, ld, recsAtStart,
                 apVars>>

\* save_to_csv(results, analysis_path); return final_recommendations
SaveFull(p) ==
  /\ pc[p] = "save_full"
  /\ CsvWrite(p, analysisFile, results[p], "flag")
  /\ UNCHANGED <<benchVars, stateFile, recsFile, envVars, todo, results, count,
                 current_total, rec_df, fails, submitted, okSet, fcFetched,
                 fileAtStart, entityExc, launched, args, ld, recsAtStart,
                 apVars>>

\* ------------------------------------------------------- environment
\* the process is killed (SIGKILL): by kill_process or by anything else
Killed(p) ==
  /\ pc' = [pc EXCEPT ![p] = "killed"]
  /\ ld' = [ld EXCEPT ![p] = NoState]
  /\ NoLocals(p)

Die(p) ==
  /\ Alive(p)
  /\ Killed(p)
  /\ UNCHANGED <<benchVars, stateFile, fileVars, envVars, launched, recsAtStart, apVars>>

Tick ==
  /\ now < 1 + MaxTicks
  /\ now' = now + 1
  /\ UNCHANGED <<benchVars, stateFile, fileVars, equityList, today, resetDue, scanVars,
                 procVars, apVars>>

\* an operator (or run_daily_job.py) runs main.py and waits for it
OperatorRun(p) ==
  /\ \A q \in Procs : ~Alive(q)
  /\ \E mode \in Modes, limit \in Limits : StartProcess(p, mode, limit)
  /\ UNCHANGED <<benchVars, stateFile, fileVars, envVars, scanVars, ld, apVars>>

\* auto_pilot.py run_main(["--fetch-only"]), the first stage of the day
PopenRun(p) ==
  /\ launched = 0
  /\ StartProcess(p, "fetch-only", 0)
  /\ UNCHANGED <<benchVars, stateFile, fileVars, envVars, scanVars, ld, apVars>>

\* scheduler_daemon.py run_analysis, at 12:00: main.py is started whatever
\* the state file says and whoever else is running
DaemonRun(p) ==
  /\ launched = 1
  /\ StartProcess(p, "full", 0)
  /\ UNCHANGED <<benchVars, stateFile, fileVars, envVars, scanVars, ld, apVars>>

\* a step of a run over a universe of fewer than SaveEvery entities, where
\* the incremental save is never due
SmallStep(p) ==
  \/ MainStartup(p) \/ MainRegister(p) \/ MainStage(p)
  \/ ScanInit(p) \/ Collect(p) \/ Heartbeat(p)
  \/ FinalSave(p) \/ Rank(p) \/ SaveRecs(p) \/ SaveFull(p)
  \/ MainFlag(p) \/ MainComplete(p) \/ MainPost(p)
  \/ Raise(p) \/ MainFailing(p)

PipelineStep(p) == SmallStep(p) \/ IncSave(p)

\* --------------------------------------------------- auto_pilot.py
\* the reset leaves the status as it finds it
start_new_day_keeps_status(state, current_date) ==
  [state EXCEPT !.run_date = current_date,
                !.flags = [fetch_complete |-> FALSE, model_complete |-> FALSE,
                           big_bets_complete |-> FALSE],
                !.total_scanned = 0]

start_new_day(state, current_date) ==
  [state EXCEPT !.run_date = current_date,
                !.flags = [fetch_complete |-> FALSE, model_complete |-> FALSE,
                           big_bets_complete |-> FALSE],
                !.total_scanned = 0,
                !.status = STATUS_IDLE]

\* the status test forgotten
Trigger_any_status(state, status, current_date) ==
  IF state.run_date = current_date
  THEN IF ~state.flags.fetch_complete THEN "FETCH"
       ELSE IF ~state.flags.model_complete THEN "MODEL"
       ELSE IF ~state.flags.big_bets_complete THEN "BIG_BETS"
       ELSE "NOTHING"
  ELSE "NOTHING"

\* the model stage tested before the fetch stage
Trigger_unordered(state, status, current_date) ==
  IF state.run_date = current_date
     /\ status \in {STATUS_IDLE, STATUS_COMPLETED, STATUS_FAILED}
  THEN IF ~state.flags.model_complete THEN "MODEL"
       ELSE IF ~state.flags.fetch_complete THEN "FETCH"
       ELSE IF ~state.flags.big_bets_complete THEN "BIG_BETS"
       ELSE "NOTHING"
  ELSE "NOTHING"

\* a gate that leaves a failed run alone
Trigger_no_retry(state, status, current_date) ==
  IF state.run_date = current_date
     /\ status \in {STATUS_IDLE, STATUS_COMPLETED}
  THEN IF ~state.flags.fetch_complete THEN "FETCH"
       ELSE IF ~state.flags.model_complete THEN "MODEL"
       ELSE IF ~state.flags.big_bets_complete THEN "BIG_BETS"
       ELSE "NOTHING"
  ELSE "NOTHING"

\* what the loop does with the state and status it holds
Trigger(state, status, current_date) ==
  IF state.run_date = current_date
     /\ status \in {STATUS_IDLE, STATUS_COMPLETED, STATUS_FAILED}
  THEN IF ~state.flags.fetch_complete THEN "FETCH"
       ELSE IF ~state.flags.model_complete THEN "MODEL"
       ELSE IF ~state.flags.big_bets_complete THEN "BIG_BETS"
       ELSE "NOTHING"
  ELSE "NOTHING"

\* A state_manager call of the auto-pilot: load, then save in a later step.
ApStateWrite(newState, nextPc) ==
  IF ap_ld = NoState
  THEN /\ ap_ld' = load_state
       /\ UNCHANGED <<stateFile, ap_pc>>
  ELSE /\ stateFile' = newState
       /\ ap_ld' = NoState
       /\ ap_pc' = nextPc

\* schedule.run_pending(): start_new_day when the 00:00 job is due
ApRunPending ==
  /\ ap_pc = "run_pending"
  /\ IF resetDue
     THEN /\ ApStateWrite(start_new_day(ap_ld, today), "load")
          /\ resetDue' = (ap_ld = NoState)
     ELSE /\ ap_pc' = "load"
          /\ UNCHANGED <<stateFile, ap_ld, resetDue>>
  /\ UNCHANGED <<benchVars, fileVars, equityList, now, today, scanVars, procVars,
                 ap_state, ap_status, stuck_pid>>

\* state = sm.load_state(); status = state['status']
ApLoad ==
  /\ ap_pc = "load"
  /\ ap_state' = load_state
  /\ ap_status' = load_state.status
  /\ ap_pc' = "check"
  /\ UNCHANGED <<benchVars, stateFile, fileVars, envVars, scanVars, procVars, ap_ld,
                 stuck_pid>>

\* is_stuck, stuck_pid = sm.check_stuck(timeout_seconds=1800)
ApCheckStuck ==
  /\ ap_pc = "check"
  /\ IF check_stuck(load_state, now)
     THEN /\ stuck_pid' = load_state.pid
          /\ ap_pc' = "kill"
     ELSE /\ ap_pc' = "decide"
          /\ UNCHANGED stuck_pid
  /\ UNCHANGED <<benchVars, stateFile, fileVars, envVars, scanVars, procVars, ap_state,
                 ap_status, ap_ld>>

\* kill_process(stuck_pid): psutil may kill the process or raise (no such
\* process, access denied, psutil missing); the exception is logged
ApKill ==
  /\ ap_pc = "kill"
  /\ ap_pc' = "set_failed"
  /\ \E killed \in BOOLEAN :
       IF killed /\ stuck_pid \in Procs /\ Alive(stuck_pid)
       THEN Killed(stuck_pid)
       ELSE UNCHANGED <<pc, ld, scanVars, args>>
  /\ UNCHANGED <<benchVars, stateFile, fileVars, envVars, launched, recsAtStart,
                 ap_state, ap_status, ap_ld, stuck_pid>>

\* sm.set_status(sm.STATUS_FAILED); status = sm.STATUS_FAILED
ApSetFailed ==
  /\ ap_pc = "set_failed"
  /\ ApStateWrite(set_status(ap_ld, STATUS_FAILED, "NONE", now), "decide")
  /\ ap_status' = IF ap_ld = NoState THEN ap_status ELSE STATUS_FAILED
  /\ stuck_pid' = IF ap_ld = NoState THEN stuck_pid ELSE NoPid
  /\ UNCHANGED <<benchVars, fileVars, envVars, scanVars, procVars, ap_state>>

\* "PIPELINE EXECUTION LOGIC", then the sleeps; the auto-pilot has room for
\* max_launches pipeline processes
Decide(max_launches) ==
  /\ ap_pc = "decide"
  /\ LET what == Trigger(ap_state, ap_status, today) IN
       /\ IF what = "FETCH"
          THEN \E p \in 1 .. max_launches : StartProcess(p, "fetch-only", 0)
          ELSE IF what = "MODEL"
          THEN \E p \in 1 .. max_launches :
                 StartProcess(p, "analyze-only", 0)
          ELSE UNCHANGED <<launched, pc, args, recsAtStart>>
       /\ ap_pc' = IF what = "BIG_BETS" THEN "big_bets" ELSE "run_pending"
  /\ ap_state' = NoState
  /\ ap_status' = "NONE"
  /\ UNCHANGED <<benchVars, stateFile, fileVars, envVars, scanVars, ld, ap_ld,
                 stuck_pid>>

ApDecide == Decide(ApMaxLaunches)

\* run_big_bets_task up to the state flag: it needs full_analysis.csv and
\* may fail (every exception is logged)
ApBigBets ==
  /\ ap_pc = "big_bets"
  /\ \E ok \in BOOLEAN :
       ap_pc' = IF ok /\ analysisFile # <<>> THEN "bb_flag" ELSE "run_pending"
  /\ UNCHANGED <<benchVars, stateFile, fileVars, envVars, scanVars, procVars, ap_state,
                 ap_status, ap_ld, stuck_pid>>

\* state = sm.load_state(); state['flags']['big_bets_complete'] = True;
\* sm.save_state(state)
ApBigBetsFlag ==
  /\ ap_pc = "bb_flag"
  /\ ApStateWrite(mark_flag(ap_ld, "big_bets_complete"), "run_pending")
  /\ UNCHANGED <<benchVars, fileVars, envVars, scanVars, procVars, ap_state, ap_status,
                 stuck_pid>>

\* 00:00 passes: the date changes and the scheduled job becomes due
Midnight ==
  /\ today < MaxDays
  /\ today' = today + 1
  /\ resetDue' = TRUE
  /\ UNCHANGED <<benchVars, stateFile, fileVars, equityList, now, scanVars, procVars,
                 apVars>>

InitProcs ==
  /\ launched = 0
  /\ pc = [p \in Procs |-> "off"]
  /\ args = [p \in Procs |-> [mode |-> "full", limit |-> 0]]
  /\ ld = [p \in Procs |-> NoState]
  /\ wr = [p \in Procs |-> FALSE]
  /\ todo = [p \in Procs |-> <<>>]
  /\ results = [p \in Procs |-> <<>>]
  /\ count = [p \in Procs |-> 0]
  /\ current_total = [p \in Procs |-> 0]
  /\ rec_df = [p \in Procs |-> <<>>]
  /\ fails = [p \in Procs |-> 0]
  /\ submitted = [p \in Procs |-> {}]
  /\ okSet = [p \in Procs |-> {}]
  /\ fcFetched = [p \in Procs |-> {}]
  /\ fileAtStart = [p \in Procs |-> <<>>]
  /\ recsAtStart = [p \in Procs |-> <<>>]
  /\ entityExc = [p \in Procs |-> FALSE]

\* the portfolio ledger as a fresh installation has it: no file yet
NoLedger ==
  /\ historyFile = <<>>
  /\ history_df = <<>>
  /\ current_rec_df = <<>>
  /\ new_df = <<>>
  /\ updates = 0

\* no process_stock call has been made
None == [Ticker |-> "None"]

DefaultWeights ==
  [technical |-> 400, fundamental |-> 400, sentiment |-> 200,
   forecast |-> ForecastWeight]

ScoreIdle ==
  /\ weights = DefaultWeights
  /\ row_arg = None
  /\ scored = None

RankIdle ==
  /\ results_in = <<>>
  /\ ranking = "none"
  /\ forecast_for = {}
  /\ results_out = <<>>
  /\ recs_out = <<>>
  /\ rerun_out = <<>>

\* Forecaster.__init__: self.model = None
NoModel == 0

ForecastIdle ==
  /\ engine = 1
  /\ model = NoModel
  /\ calls = <<>>

AllocIdle ==
  /\ stock_list = <<>>
  /\ budget_arg = Budget
  /\ variant = "none"
  /\ allocated = <<>>

MediumIdle ==
  /\ df_input = <<>>
  /\ scored_df = <<>>
  /\ candidates = <<>>
  /\ final_recs = <<>>

\* info.get(key) of a key the provider did not send: None
Absent == -1000000

NoInfo ==
  [trailingEps |-> Absent, bookValue |-> Absent, currentPrice |-> Absent,
   previousClose |-> Absent, returnOnAssets |-> Absent,
   operatingCashflow |-> Absent, revenuePerShare |-> Absent,
   currentRatio |-> Absent, debtToEquity |-> Absent, trailingPE |-> Absent,
   pegRatio |-> Absent, returnOnEquity |-> Absent]

NoTally == [score |-> 0, checks |-> 0, value |-> 0, called |-> FALSE]

FundIdle ==
  /\ info_arg = NoInfo
  /\ fund_tally = NoTally

BenchIdle ==
  NoLedger /\ ScoreIdle /\ RankIdle /\ ForecastIdle /\ AllocIdle /\ MediumIdle /\ FundIdle

InitShared ==
  /\ BenchIdle
  /\ stateFile = _get_default_state
  /\ analysisFile = <<>>
  /\ recsFile = <<>>
  /\ now = 1
  /\ today = 1
  /\ resetDue = FALSE
  /\ ap_pc = "off"
  /\ ap_state = NoState
  /\ ap_status = "NONE"
  /\ ap_ld = NoState
  /\ stuck_pid = NoPid

Init ==
  /\ InitShared
  /\ InitProcs
  /\ equityList = [i \in 1 .. NumStocks |-> i]

Next ==
  \/ \E p \in Procs : PipelineStep(p)
  \/ \E p \in Procs : OperatorRun(p)
  \/ \E p \in Procs : Die(p)

Spec == Init /\ [][Next]_vars


\* The auto-pilot is started on day 1, after the reset of that day: either
\* nothing has run yet, or an earlier fetch-only run (process OldPid, gone)
\* has completed and left its files.
OldPid == MaxLaunches + 1

FetchedRows == Ranked([i \in 1 .. ApNumStocks |-> ScoredEntity(i)], TRUE)

AfterFetch ==
  [start_new_day(_get_default_state, 1) EXCEPT
     !.status = STATUS_COMPLETED, !.stage = STAGE_FETCH,
     !.last_heartbeat = 1, !.total_scanned = ApNumStocks, !.pid = OldPid,
     !.flags = [@ EXCEPT !.fetch_complete = TRUE]]

ApInit ==
  /\ InitProcs
  /\ BenchIdle
  /\ equityList = [i \in 1 .. ApNumStocks |-> i]
  /\ \/ /\ stateFile = start_new_day(_get_default_state, 1)
        /\ analysisFile = <<>>
        /\ recsFile = <<>>
     \/ /\ stateFile = AfterFetch
        /\ analysisFile = CsvRows(FetchedRows)
        /\ recsFile = CsvRows(Allocation(FetchedRows))
  /\ now = 1
  /\ today = 1
  /\ resetDue = FALSE
  /\ ap_pc = "run_pending"
  /\ ap_state = NoState
  /\ ap_status = "NONE"
  /\ ap_ld = NoState
  /\ stuck_pid = NoPid

ApNext ==
  \/ ApRunPending \/ ApLoad \/ ApCheckStuck \/ ApKill \/ ApSetFailed
  \/ ApDecide \/ ApBigBets \/ ApBigBetsFlag
  \/ \E p \in Procs : SmallStep(p)
  \/ \E p \in Procs : Die(p)
  \/ Tick
  \/ Midnight

AutoPilotSpec == ApInit /\ [][ApNext]_vars

RaceInit ==
  /\ InitShared
  /\ InitProcs
  /\ equityList = [i \in 1 .. ApNumStocks |-> i]

RaceNext ==
  \/ \E p \in Procs : PopenRun(p)
  \/ \E p \in Procs : DaemonRun(p)
  \/ \E p \in Procs : SmallStep(p)
  \/ Tick

RaceSpec == RaceInit /\ [][RaceNext]_vars

\* The auto-pilot with room for a second pipeline process.  Once a process
\* has been started, only the newest one takes steps: an older process that
\* is still alive is waiting (for the provider, for the scheduler).
ApRelaunch == Decide(MaxLaunches)

NewestStep(p) == p = launched /\ SmallStep(p)

SuperviseNext ==
  \/ ApRunPending \/ ApLoad \/ ApCheckStuck \/ ApRelaunch
  \/ ApBigBets \/ ApBigBetsFlag
  \/ \E p \in Procs : NewestStep(p)
  \/ Midnight

SuperviseSpec == ApInit /\ [][SuperviseNext]_vars

\* The active day, for what the loop reaches in the end: no reset, and the
\* loop and the newest process keep taking steps.  The day starts as in
\* ApInit, or after a fetch run and a model run (process OldPid, gone) that
\* scored no entity: both flags are set and there is no result file.
AfterModelNoResults ==
  [AfterFetch EXCEPT !.stage = "NO_RESULTS", !.total_scanned = 0,
                     !.flags = [@ EXCEPT !.model_complete = TRUE]]

LiveInit ==
  /\ InitProcs
  /\ BenchIdle
  /\ equityList = [i \in 1 .. ApNumStocks |-> i]
  /\ \/ /\ stateFile = start_new_day(_get_default_state, 1)
        /\ analysisFile = <<>>
        /\ recsFile = <<>>
     \/ /\ stateFile = AfterFetch
        /\ analysisFile = CsvRows(FetchedRows)
        /\ recsFile = CsvRows(Allocation(FetchedRows))
     \/ /\ stateFile = AfterModelNoResults
        /\ analysisFile = <<>>
        /\ recsFile = <<>>
  /\ now = 1
  /\ today = 1
  /\ resetDue = FALSE
  /\ ap_pc = "run_pending"
  /\ ap_state = NoState
  /\ ap_status = "NONE"
  /\ ap_ld = NoState
  /\ stuck_pid = NoPid

ApLoop ==
  \/ ApRunPending \/ ApLoad \/ ApCheckStuck \/ ApRelaunch
  \/ ApBigBets \/ ApBigBetsFlag

\* run_big_bets_task gets as far as its state flag
BigBetsDone == ApBigBets /\ ap_pc' = "bb_flag"

LiveNext == ApLoop \/ \E p \in Procs : NewestStep(p)

LiveSpec ==
  /\ LiveInit
  /\ [][LiveNext]_vars
  /\ WF_vars(ApLoop)
  /\ WF_vars(\E p \in Procs : NewestStep(p))
  /\ SF_vars(BigBetsDone)

\* ------------------------------------------- portfolio_manager.py
\* The ledger is checked on its own: LedgerSpec calls update_portfolio over
\* days, on a ledger that is absent or holds one earlier batch, with the
\* recommendations of the day drawn from the entities 1 .. LedgerStocks.
NameOf(t) == <<"NAME OF COMPANY", t>>

HistoryColumns ==
  {"Date", "Ticker", "Name", "Action", "Rank", "Price", "Score"}

\* pd.read_csv of the ledger, or the empty frame when there is no file
load_history(file) ==
  [i \in 1 .. Len(file) |-> [c \in HistoryColumns |-> file[i][c]]]

MaxOf(S) == CHOOSE x \in S : \A y \in S : y <= x

last_date(df) == MaxOf({df[i].Date : i \in 1 .. Len(df)})

last_recs(df) == SelectSeq(df, LAMBDA r : r.Date = last_date(df))

\* the concat forgotten: only the rows of the latest date are written
to_csv_latest_only(df) ==
  [i \in 1 .. Len(last_recs(df)) |->
     [c \in HistoryColumns |-> last_recs(df)[i][c]]]

\* DataFrame.to_csv(index=False): the file is rewritten from the frame
to_csv(df) == [i \in 1 .. Len(df) |-> [c \in HistoryColumns |-> df[i][c]]]

\* the filter on Action forgotten: every row of the last date counts as held
previous_tickers_any_action(df) ==
  IF df # <<>> THEN Tickers(last_recs(df)) ELSE {}

previous_tickers(df) ==
  IF df # <<>>
  THEN Tickers(SelectSeq(last_recs(df), LAMBDA r : r.Action = "HOLD"))
  ELSE {}

\* the first loop: one entry per row of today's recommendations
TodayEntries(df, recs, day) ==
  [i \in 1 .. Len(recs) |->
     [Date |-> day, Ticker |-> recs[i].Ticker, Name |-> recs[i].Name,
      Action |-> IF recs[i].Ticker \notin previous_tickers(df)
                 THEN "NEW_ENTRY" ELSE "HOLD",
      Rank |-> i, Price |-> recs[i].Close, Score |-> recs[i].Final_Score]]

\* history_df[(Date == last_date) & (Ticker == tick)].iloc[0]
prev_row(df, tick) ==
  Head(SelectSeq(last_recs(df), LAMBDA r : r.Ticker = tick))

DropoutEntry(df, tick, day) ==
  [Date |-> day, Ticker |-> tick, Name |-> prev_row(df, tick).Name,
   Action |-> "DROPOUT", Rank |-> 0 - 1, Price |-> prev_row(df, tick).Price,
   Score |-> 0]

\* the orders in which a for loop may visit a set
Orderings(S) ==
  {o \in [1 .. Cardinality(S) -> S] : \A x \in S : \E i \in DOMAIN o : o[i] = x}

\* the second loop, visiting previous_tickers in the order `order'
DropoutEntries(df, recs, day, order) ==
  [i \in 1 .. Len(order) |-> DropoutEntry(df, order[i], day)]

Dropped(df, recs) == previous_tickers(df) \ Tickers(recs)

\* ------------------------------------------------ LedgerSpec
LedgerStocks == 4
MaxUpdates == 2
SeedDate == 0
Actions == {"HOLD", "NEW_ENTRY", "DROPOUT"}

\* today's recommendations: a non-empty ranked list of distinct entities
\* (main() returns before update_portfolio when there is none)
RecRow(t, day) ==
  [Ticker |-> t, Name |-> NameOf(t), Close |-> PriceOf(t) + day,
   Final_Score |-> PreScoreOf(t)]

RECURSIVE Ascending(_)
Ascending(S) ==
  IF S = {} THEN <<>>
  ELSE LET m == CHOOSE x \in S : \A y \in S : x <= y
       IN <<m>> \o Ascending(S \ {m})

RecInputs(day) ==
  {[i \in 1 .. Cardinality(S) |-> RecRow(Ascending(S)[i], day)] :
     S \in (SUBSET (1 .. LedgerStocks)) \ {{}}}

\* a ledger written before the first day: one batch, any action per entity
SeedLedgers ==
  {[i \in 1 .. Cardinality(DOMAIN a) |->
      [Date |-> SeedDate, Ticker |-> Ascending(DOMAIN a)[i],
       Name |-> NameOf(Ascending(DOMAIN a)[i]),
       Action |-> a[Ascending(DOMAIN a)[i]], Rank |-> i,
       Price |-> PriceOf(Ascending(DOMAIN a)[i]), Score |-> 0]] :
     a \in UNION {[S -> Actions] : S \in SUBSET (1 .. LedgerStocks - 1)}}

update_portfolio ==
  /\ updates < MaxUpdates
  /\ \E recs \in RecInputs(today) :
       LET df == load_history(historyFile) IN
       \E order \in Orderings(Dropped(df, recs)) :
         LET entries == TodayEntries(df, recs, today)
                          \o DropoutEntries(df, recs, today, order)
         IN /\ history_df' = df
            /\ current_rec_df' = recs
            /\ new_df' = entries
            /\ historyFile' = to_csv(df \o entries)
  /\ updates' = updates + 1
  /\ UNCHANGED <<pipelineVars, envVars, fundVars, mediumVars, scoreVars, rankVars, forecastVars,
                 allocVars>>

\* the calendar day changes between two runs of main()
NextDay ==
  /\ today < MaxDays
  /\ today' = today + 1
  /\ UNCHANGED <<pipelineVars, benchVars, equityList, now, resetDue>>

\* the pipeline is not running while a unit is exercised on its own
PipelineIdle ==
  /\ InitProcs
  /\ stateFile = _get_default_state
  /\ analysisFile = <<>>
  /\ recsFile = <<>>
  /\ equityList = [i \in 1 .. LedgerStocks |-> i]
  /\ now = 1
  /\ today = 1
  /\ resetDue = FALSE
  /\ ap_pc = "off"
  /\ ap_state = NoState
  /\ ap_status = "NONE"
  /\ ap_ld = NoState
  /\ stuck_pid = NoPid

LedgerInit ==
  /\ PipelineIdle
  /\ FundIdle
  /\ MediumIdle
  /\ AllocIdle
  /\ ScoreIdle
  /\ RankIdle
  /\ ForecastIdle
  /\ historyFile \in SeedLedgers
  /\ history_df = <<>>
  /\ current_rec_df = <<>>
  /\ new_df = <<>>
  /\ updates = 0

LedgerNext == update_portfolio \/ NextDay

LedgerSpec == LedgerInit /\ [][LedgerNext]_vars

\* ------------------------------------- strategy.py: process_stock
\* process_stock is checked on its own in ScoreSpec: the row it is given is
\* described by what the three fetches and the analyzer make of it (the
\* number of price points of the history, the three sub-scores, the last
\* close), the weights are those of the configuration.
MinHistory == 50

\* the methods class Analyzer defines
AnalyzerMethods ==
  {"_calculate_sma", "_calculate_ema", "_calculate_rsi",
   "calculate_technicals", "get_piotroski_score", "calculate_graham_number",
   "score_fundamental", "get_investment_thesis", "get_technical_score",
   "analyze_sentiment"}

\* the methods of the analyzer that process_stock calls, in call order
AnalyzerCalls ==
  <<"calculate_technicals", "get_technical_score", "score_fundamental",
    "analyze_sentiment", "calculate_intrinsic_value",
    "get_investment_thesis">>

\* calculate_technicals: None below 50 price points
calculate_technicals(hist) == IF hist < MinHistory THEN 0 ELSE hist

pre_score(w, tech_score, fund_score, sent_score) ==
  (w.technical * tech_score + w.fundamental * fund_score
     + w.sentiment * sent_score) \div 1000

\* lines 61-97: the record of a scored entity
ScoredRecord(r, w) ==
  [Ticker |-> r.Ticker, Name |-> NameOf(r.Ticker), Close |-> r.Close,
   Final_Score |-> pre_score(w, r.tech_score, r.fund_score, r.sent_score),
   Tech_Score |-> r.tech_score, Fund_Score |-> r.fund_score,
   Sent_Score |-> r.sent_score,
   Pre_Score |-> pre_score(w, r.tech_score, r.fund_score, r.sent_score),
   Forecast_Score |-> 0]

\* a call of a method the analyzer does not define raises AttributeError
\* inside the try block, and the except clause returns None
process_stock(r, w) ==
  IF r.hist = 0 THEN None
  ELSE IF calculate_technicals(r.hist) = 0 THEN None
  ELSE IF \E i \in DOMAIN AnalyzerCalls : AnalyzerCalls[i] \notin AnalyzerMethods
       THEN None
  ELSE ScoredRecord(r, w)

\* ------------------------------------------------ ScoreSpec
HistoryLengths == {0, 49, 50, 250}
SubScores == {0, 500, 1000}
WeightSets ==
  {DefaultWeights,
   [technical |-> 500, fundamental |-> 300, sentiment |-> 100,
    forecast |-> 0],
   [technical |-> 1000, fundamental |-> 1000, sentiment |-> 1000,
    forecast |-> 2000]}

RowInputs ==
  [Ticker : {1}, hist : HistoryLengths, tech_score : SubScores,
   fund_score : SubScores, sent_score : SubScores, Close : {250}]

ProcessStock ==
  \E r \in RowInputs :
    /\ row_arg' = r
    /\ scored' = process_stock(r, weights)
    /\ UNCHANGED <<pipelineVars, envVars, fundVars, mediumVars, ledgerVars, rankVars, forecastVars,
                   allocVars, weights>>

ScoreInit ==
  /\ PipelineIdle
  /\ FundIdle
  /\ MediumIdle
  /\ AllocIdle
  /\ NoLedger
  /\ RankIdle
  /\ ForecastIdle
  /\ weights \in WeightSets
  /\ row_arg = None
  /\ scored = None

ScoreNext == ProcessStock

ScoreSpec == ScoreInit /\ [][ScoreNext]_vars

\* ------------------------ strategy.py: run_full_analysis, steps 3 to 6
\* The ranking is checked on its own in RankSpec, on result sets larger
\* than the 20 top candidates: the scan has left RankSizes records, scored
\* in this run or resumed from a file an earlier run wrote.
RankSizes == {1, 2, 20, 21, 22}
Profiles == {"high", "mixed", "low"}
Carried == {"scored", "resumed_boosted", "resumed_zero"}

SubScoresOf(profile, t) ==
  IF profile = "high"
  THEN [Ticker |-> t, hist |-> 250, tech_score |-> 1000, fund_score |-> 1000,
        sent_score |-> 1000, Close |-> PriceOf(t)]
  ELSE IF profile = "mixed"
  THEN [Ticker |-> t, hist |-> 250, tech_score |-> 100 * (t % 10),
        fund_score |-> 500, sent_score |-> 500, Close |-> PriceOf(t)]
  ELSE [Ticker |-> t, hist |-> 250, tech_score |-> 0, fund_score |-> 0,
        sent_score |-> 0, Close |-> PriceOf(t)]

\* a record of the result set: scored in this run, or read back from a file
\* in which an earlier full run left the given Final_Score
ResultRow(profile, carried, t, w) ==
  LET r == ScoredRecord(SubScoresOf(profile, t), w)
      fresh == [Ticker |-> t, Pre_Score |-> r.Pre_Score,
                Final_Score |-> r.Final_Score,
                Forecast_Score |-> r.Forecast_Score, Close |-> r.Close,
                text |-> {}]
  IN IF carried = "scored" THEN fresh
     ELSE IF carried = "resumed_boosted"
     THEN ParsedRow(CsvRow([fresh EXCEPT !.Final_Score = ScoreCap,
                                         !.Forecast_Score = 1000]))
     ELSE ParsedRow(CsvRow([fresh EXCEPT !.Final_Score = 0]))

ResultInputs(w) ==
  {[i \in 1 .. n |-> ResultRow(profile, carried, i, w)] :
     n \in RankSizes, profile \in Profiles, carried \in Carried}

top_candidates(res) == Take(SortDesc(FloatPre(res), "Pre_Score"), TopK)

\* steps 3 to 6 of run_full_analysis on the result set of the scan
RunRanking ==
  /\ ranking = "none"
  /\ \E skip \in BOOLEAN :
       /\ ranking' = IF skip THEN "fetch-only" ELSE "full"
       /\ forecast_for' = IF skip THEN {} ELSE Tickers(top_candidates(results_in))
       /\ results_out' = Ranked(results_in, skip)
       /\ recs_out' = Allocation(Ranked(results_in, skip))
  /\ UNCHANGED <<pipelineVars, envVars, fundVars, mediumVars, ledgerVars, scoreVars, forecastVars,
                 allocVars, results_in, rerun_out>>

\* a second full analysis over the result file the first one saved: every
\* entity is in the file, nothing is scanned, and steps 3 to 5 run on the
\* rows read back (the provider gives the same forecasts, ForecastOf)
RerunRanking ==
  /\ ranking = "full"
  /\ rerun_out = <<>>
  /\ rerun_out' = Ranked(read_csv_to_list(CsvRows(results_out)), FALSE)
  /\ UNCHANGED <<pipelineVars, envVars, fundVars, mediumVars, ledgerVars, scoreVars, forecastVars,
                 allocVars, results_in, ranking, forecast_for, results_out,
                 recs_out>>

RankInit ==
  /\ PipelineIdle
  /\ FundIdle
  /\ MediumIdle
  /\ AllocIdle
  /\ NoLedger
  /\ ForecastIdle
  /\ weights \in WeightSets
  /\ row_arg = None
  /\ scored = None
  /\ results_in \in ResultInputs(weights)
  /\ ranking = "none"
  /\ forecast_for = {}
  /\ results_out = <<>>
  /\ recs_out = <<>>
  /\ rerun_out = <<>>

RankNext == RunRanking \/ RerunRanking

RankSpec == RankInit /\ [][RankNext]_vars

\* ------------------------------------------- models.py: Forecaster
\* The forecaster of one engine is checked on its own in ForecastSpec: the
\* forecast loop calls get_forecast_score for one top candidate after the
\* other, each with the history fetch_stock_history returns for it.
Lookback == 60
MinSamples == 10
MaxCandidates == 3
MaxEngines == 2
ForecastHistories == {0, 65, 250}

\* prepare_data and the test of train_model: can a model be fit on a
\* history of n price points
Trainable(n) == n >= Lookback + 5 /\ n - Lookback >= MinSamples

\* train_model: the model after the call, fit on the history of entity t
train_model(m, t, n) == IF Trainable(n) THEN t ELSE m

\* predict_next_days: the model that makes the predictions for entity t;
\* it is trained only when the forecaster has none yet
predict_model(m, t, n) == IF m = NoModel THEN train_model(m, t, n) ELSE m

\* get_forecast_score of the history (n price points) of entity t: the
\* model the forecaster holds after the call, and what the call used
get_forecast_score(m, t, n) ==
  IF n = 0
  THEN [Ticker |-> t, hist |-> n, trained |-> FALSE, used |-> NoModel,
        model |-> m]
  ELSE [Ticker |-> t, hist |-> n,
        trained |-> (m = NoModel /\ Trainable(n)),
        used |-> IF n >= Lookback THEN predict_model(m, t, n) ELSE NoModel,
        model |-> predict_model(m, t, n)]

\* the forecast loop reaches the next top candidate
ForecastCandidate ==
  /\ Len(calls) < MaxCandidates
  /\ \E t \in (1 .. MaxCandidates) \ Tickers(calls), n \in ForecastHistories :
       LET c == get_forecast_score(model, t, n)
       IN /\ model' = c.model
          /\ calls' = Append(calls, [f \in DOMAIN c \ {"model"} |-> c[f]])
  /\ UNCHANGED <<pipelineVars, envVars, fundVars, mediumVars, ledgerVars, scoreVars, rankVars,
                 allocVars, engine>>

\* a later run: main() builds a new RecommendationEngine, which builds a
\* new Forecaster
NewEngine ==
  /\ calls # <<>>
  /\ engine < MaxEngines
  /\ engine' = engine + 1
  /\ model' = NoModel
  /\ calls' = <<>>
  /\ UNCHANGED <<pipelineVars, envVars, fundVars, mediumVars, ledgerVars, scoreVars, rankVars,
                 allocVars>>

ForecastInit ==
  /\ PipelineIdle
  /\ FundIdle
  /\ MediumIdle
  /\ AllocIdle
  /\ NoLedger
  /\ ScoreIdle
  /\ RankIdle
  /\ engine = 1
  /\ model = NoModel
  /\ calls = <<>>

ForecastNext == ForecastCandidate \/ NewEngine

ForecastSpec == ForecastInit /\ [][ForecastNext]_vars

\* ----------------------------------- dashboard.py: apply_allocation
\* The two allocations are checked on their own in AllocSpec, on ranked
\* lists of up to MaxPicks entities.  Scores are in tenths here: the weight
\* score^5 / total does not depend on the unit.
MaxPicks == 3
PickScores == {0, 5, 8, 10}
PickPrices == {0, 30, 100}
Budgets == {1000, 1050, 10000}

Power5(x) == x * x * x * x * x

RECURSIVE SumOver(_, _)
SumOver(list, f) ==
  IF list = <<>> THEN 0 ELSE list[1][f] + SumOver(Tail(list), f)

RECURSIVE SumPower5(_, _)
SumPower5(list, score_key) ==
  IF list = <<>> THEN 0
  ELSE Power5(list[1][score_key]) + SumPower5(Tail(list), score_key)

\* round(num / den) of Python 3: to the nearest integer, ties to even
RoundHalfEven(num, den) ==
  LET q == num \div den
      r == num % den
  IN IF 2 * r < den THEN q
     ELSE IF 2 * r > den THEN q + 1
     ELSE IF q % 2 = 0 THEN q ELSE q + 1

\* int(round(raw_alloc / 10) * 10) for raw_alloc = budget * score^5 / total
WeightedAllocation(score, total, budget) ==
  IF total > 0 THEN RoundHalfEven(budget * Power5(score), 10 * total) * 10
  ELSE 0

apply_allocation(list, budget, score_key) ==
  LET total == SumPower5(list, score_key) IN
  [i \in 1 .. Len(list) |->
     [f \in DOMAIN list[i] \cup {"Allocation", "Qty"} |->
        IF f = "Allocation"
        THEN WeightedAllocation(list[i][score_key], total, budget)
        ELSE IF f = "Qty"
             THEN Quantity(WeightedAllocation(list[i][score_key], total,
                                              budget), list[i].Close)
             ELSE list[i][f]]]

\* ------------------------------------------------ AllocSpec
PickLists ==
  {[i \in 1 .. n |-> [Ticker |-> i, Close |-> pr[i], Final_Score |-> sc[i]]] :
     n \in 1 .. MaxPicks, sc \in [1 .. MaxPicks -> PickScores],
     pr \in [1 .. MaxPicks -> PickPrices]}

\* a list sorted by Final_Score, descending
IsRanked(list) ==
  \A i, j \in DOMAIN list : i < j => list[i].Final_Score >= list[j].Final_Score

\* run_full_analysis, step 6, on the top N of the ranking
EqualSplit ==
  /\ variant = "none"
  /\ variant' = "equal"
  /\ allocated' = equal_split(stock_list, budget_arg)
  /\ UNCHANGED <<pipelineVars, envVars, fundVars, mediumVars, ledgerVars, scoreVars, rankVars,
                 forecastVars, stock_list, budget_arg>>

\* the dashboard: apply_allocation(ai_data, user_budget, 'Final_Score')
ApplyAllocation ==
  /\ variant = "none"
  /\ variant' = "score"
  /\ allocated' = apply_allocation(stock_list, budget_arg, "Final_Score")
  /\ UNCHANGED <<pipelineVars, envVars, fundVars, mediumVars, ledgerVars, scoreVars, rankVars,
                 forecastVars, stock_list, budget_arg>>

AllocInit ==
  /\ PipelineIdle
  /\ FundIdle
  /\ MediumIdle
  /\ NoLedger
  /\ ScoreIdle
  /\ RankIdle
  /\ ForecastIdle
  /\ stock_list \in {l \in PickLists : IsRanked(l)}
  /\ budget_arg \in Budgets
  /\ variant = "none"
  /\ allocated = <<>>

AllocNext == EqualSplit \/ ApplyAllocation

AllocSpec == AllocInit /\ [][AllocNext]_vars






\* ------------------------------------- medium_term_strategy.py
\* MediumTermEngine.run_analysis is checked on its own in MediumSpec, on
\* tables of MediumSizes rows.  A row is one of nine kinds of company (its
\* fundamentals; DebtToEquity in hundredths); the win probability the fitted
\* classifier gives is a function of the features, in thousandths.
Bit(b) == IF b THEN 1 ELSE 0

quality_score(row) ==
  Bit(row.ROCE > 15) + Bit(row.ROE > 15) + Bit(row.OPM > 12)
  + Bit(row.FreeCashFlow > 0)
  + Bit(row.DebtToEquity < 50 \/ row.InterestCoverage > 5)
  + Bit(row.PromoterHolding > 50) + Bit(row.PromoterHoldingChange3Y >= 0)
  + Bit(row.SalesGrowth3Y > 10) + Bit(row.ProfitGrowth3Y > 12)
  + Bit(row.CMP > row.DMA_200) + Bit(45 <= row.RSI /\ row.RSI <= 70)

roi_6to12_score(row) ==
  Bit(row.ROCE > 15) + Bit(row.ROE > 15) + Bit(row.OPM > 12)
  + Bit(row.FreeCashFlow > 0)
  + Bit(row.DebtToEquity < 50 \/ row.InterestCoverage > 5)
  + Bit(row.PromoterHolding > 50) + Bit(row.PromoterHoldingChange3Y >= 0)
  + Bit(row.SalesGrowth3Y > 10) + Bit(row.ProfitGrowth3Y > 12)
  + 2 * Bit(row.QtrProfitGrowth > 15) + Bit(row.QtrSalesGrowth > 10)
  + Bit(row.CMP > row.DMA_200) + Bit(45 <= row.RSI /\ row.RSI <= 70)

RoiThreshold == 9
MinTrainRows == 20
MinPositives == 2
FallbackHead == 10
MaxRecs == 3
SplitWeights == <<40, 35, 25>>
NeutralProbability == 500

Positives(df) ==
  Cardinality({i \in 1 .. Len(df) : df[i].ROI_6to12_Score >= RoiThreshold})

\* train_and_predict: WinProbability is 0.0 when there is too little to
\* train on, what the fitted model predicts otherwise, and 0.5 when fitting
\* raises (LogisticRegression refuses a target with one class only)
train_and_predict(df, proba) ==
  [i \in 1 .. Len(df) |->
     [f \in DOMAIN df[i] \cup {"WinProbability"} |->
        IF f # "WinProbability" THEN df[i][f]
        ELSE IF Len(df) < MinTrainRows \/ Positives(df) < MinPositives THEN 0
        ELSE IF Positives(df) = Len(df) THEN NeutralProbability
        ELSE proba[df[i].Kind]]]

Reverse(list) == [i \in 1 .. Len(list) |-> list[Len(list) + 1 - i]]

\* df.sort_values("ROI_6to12_Score", ascending=False): the default sort is
\* not stable, rows of equal score come in the table's order or against it
TieOrders == {"kept", "reversed"}

\* the sort of the fallback forgotten: the first rows of the table
fallback_unsorted(df, tie_order) == Take(df, FallbackHead)

\* the fallback candidate set, used when no row reaches the threshold
fallback(df, tie_order) ==
  Take(SortDesc(IF tie_order = "kept" THEN df ELSE Reverse(df),
                "ROI_6to12_Score"), FallbackHead)

\* lines 202-209: candidates, sorted by (ROI_6to12_Score, WinProbability)
sorted_candidates(df, tie_order) ==
  LET strict == SelectSeq(df, LAMBDA r : r.ROI_6to12_Score >= RoiThreshold)
      chosen == IF strict = <<>> THEN fallback(df, tie_order) ELSE strict
  IN SortDesc(SortDesc(chosen, "WinProbability"), "ROI_6to12_Score")

\* lines 195-199: the score columns and the win probability
scored_frame(table, proba) ==
  train_and_predict(
    [i \in 1 .. Len(table) |->
       [f \in DOMAIN table[i] \cup {"QualityScore", "ROI_6to12_Score"} |->
          IF f = "QualityScore" THEN quality_score(table[i])
          ELSE IF f = "ROI_6to12_Score" THEN roi_6to12_score(table[i])
          ELSE table[i][f]]], proba)

\* lines 225-246: the top three, with the 40/35/25 split of the amount
recs_of(cands, amount) ==
  [i \in 1 .. Len(Take(cands, MaxRecs)) |->
     [Rank |-> i, Ticker |-> cands[i].Ticker, CMP |-> cands[i].CMP,
      Allocation |-> (amount * SplitWeights[i]) \div 100,
      ROI_Score |-> cands[i].ROI_6to12_Score,
      Quality_Score |-> cands[i].QualityScore,
      Win_Prob |-> cands[i].WinProbability]]

\* ------------------------------------------------ MediumSpec
MediumSizes == {1, 3, 11, 12, 20, 21}
Amounts == {10000, 50000}
Kinds == 1 .. 9

Breakout ==
  [ROCE |-> 20, ROE |-> 20, OPM |-> 15, FreeCashFlow |-> 100,
   DebtToEquity |-> 30, InterestCoverage |-> 8, PromoterHolding |-> 60,
   PromoterHoldingChange3Y |-> 0, SalesGrowth3Y |-> 15,
   ProfitGrowth3Y |-> 15, QtrProfitGrowth |-> 20, QtrSalesGrowth |-> 12,
   CMP |-> 120, DMA_200 |-> 100, RSI |-> 55]

\* the fundamentals of a company of kind k: ROI scores 14, 10, 10, 9, 9, 8,
\* 8, 3 and 0
Fundamentals(k) ==
  IF k = 1 THEN Breakout
  ELSE IF k = 2
  THEN [Breakout EXCEPT !.QtrProfitGrowth = 10, !.QtrSalesGrowth = 5,
                        !.RSI = 80]
  ELSE IF k = 3
  THEN [Breakout EXCEPT !.ROCE = 10, !.ROE = 12, !.OPM = 8,
                        !.FreeCashFlow = -5]
  ELSE IF k = 4
  THEN [Breakout EXCEPT !.QtrProfitGrowth = 10, !.QtrSalesGrowth = 5,
                        !.RSI = 80, !.CMP = 90]
  ELSE IF k = 5
  THEN [Breakout EXCEPT !.ROCE = 10, !.ROE = 12, !.OPM = 8,
                        !.FreeCashFlow = -5, !.PromoterHolding = 40]
  ELSE IF k = 6
  THEN [Breakout EXCEPT !.QtrProfitGrowth = 10, !.QtrSalesGrowth = 5,
                        !.RSI = 80, !.CMP = 90, !.ROCE = 10]
  ELSE IF k = 7
  THEN [Breakout EXCEPT !.ROCE = 10, !.ROE = 12, !.OPM = 8,
                        !.FreeCashFlow = -5, !.PromoterHolding = 40,
                        !.SalesGrowth3Y = 5]
  ELSE IF k = 8
  THEN [Breakout EXCEPT !.QtrProfitGrowth = 10, !.QtrSalesGrowth = 5,
                        !.RSI = 80, !.CMP = 90, !.ROCE = 10, !.ROE = 12,
                        !.OPM = 8, !.FreeCashFlow = -5,
                        !.PromoterHolding = 40, !.SalesGrowth3Y = 5]
  ELSE [ROCE |-> 5, ROE |-> 5, OPM |-> 5, FreeCashFlow |-> -10,
        DebtToEquity |-> 120, InterestCoverage |-> 1, PromoterHolding |-> 30,
        PromoterHoldingChange3Y |-> -2, SalesGrowth3Y |-> 5,
        ProfitGrowth3Y |-> 5, QtrProfitGrowth |-> 0, QtrSalesGrowth |-> 0,
        CMP |-> 80, DMA_200 |-> 100, RSI |-> 30]

TableRow(t, k) ==
  [f \in DOMAIN Breakout \cup {"Ticker", "Kind"} |->
     IF f = "Ticker" THEN t ELSE IF f = "Kind" THEN k ELSE Fundamentals(k)[f]]

\* tables of every kind, of kinds below the threshold only, and of kinds at
\* or above it only
Pools == {<<1, 9>>, <<6, 4>>, <<1, 5>>}

\* ... and tables whose best rows come last
Late == {<<9, 6>>, <<8, 7>>, <<6, 4>>, <<9, 1>>}

Tables ==
  {[i \in 1 .. n |-> TableRow(i, pool[1] + ((a * i + b) % pool[2]))] :
     n \in MediumSizes, pool \in Pools, a \in {1, 2, 5}, b \in 0 .. 3}
  \cup
  {[i \in 1 .. n |-> TableRow(i, IF i > FallbackHead THEN l[2] ELSE l[1])] :
     n \in MediumSizes, l \in Late}

\* what a fitted classifier can predict for the nine kinds
Probabilities ==
  {[k \in Kinds |-> 50 + 100 * ((c * k + d) % 10)] : c \in {1, 3, 7},
                                                      d \in {0, 5}}

RunAnalysis ==
  /\ scored_df = <<>>
  /\ \E amount \in Amounts, proba \in Probabilities, tie_order \in TieOrders :
       LET df == scored_frame(df_input, proba)
           cands == sorted_candidates(df, tie_order)
       IN /\ scored_df' = df
          /\ candidates' = cands
          /\ final_recs' = recs_of(cands, amount)
  /\ UNCHANGED <<pipelineVars, envVars, fundVars, ledgerVars, scoreVars, rankVars,
                 forecastVars, allocVars, df_input>>

MediumInit ==
  /\ PipelineIdle
  /\ FundIdle
  /\ NoLedger
  /\ ScoreIdle
  /\ RankIdle
  /\ ForecastIdle
  /\ AllocIdle
  /\ df_input \in Tables
  /\ scored_df = <<>>
  /\ candidates = <<>>
  /\ final_recs = <<>>

MediumNext == RunAnalysis

MediumSpec == MediumInit /\ [][MediumNext]_vars

\* ------------------------------- analysis.py: score_fundamental
\* score_fundamental is checked on its own in FundSpec, on the info records
\* of InfoInputs.  Prices, earnings and book value are whole numbers; the
\* ratios (debtToEquity, pegRatio, returnOnEquity, currentRatio) are in
\* hundredths; the value returned is in thousandths.
Truthy(x) == x # Absent /\ x # 0

\* info.get(key, default)
Get(info, key, default) == IF info[key] = Absent THEN default ELSE info[key]

\* get_piotroski_score: five tests, int((score / 5) * 9)
get_piotroski_score(info) ==
  LET roa == Get(info, "returnOnAssets", 0)
      ocf == Get(info, "operatingCashflow", 0)
      asset_turnover == Get(info, "revenuePerShare", 0)
      current_ratio == Get(info, "currentRatio", 0)
      debt_equity == Get(info, "debtToEquity", 0)
      score == Bit(roa > 0) + Bit(ocf > 0) + Bit(asset_turnover > 0)
               + Bit(current_ratio > 100)
               + Bit(debt_equity # 0 /\ debt_equity < 100)
  IN (score * 9) \div 5

\* calculate_graham_number is sqrt(22.5 * eps * bvps) when both are
\* positive, else 0; this is twice its square, which decides every
\* comparison the code makes with it
graham_square2(info) ==
  LET eps == info.trailingEps
      bvps == info.bookValue
  IN IF Truthy(eps) /\ Truthy(bvps) /\ eps > 0 /\ bvps > 0
     THEN 45 * eps * bvps ELSE 0

\* current_price < graham_num, for a positive price
BelowGraham(current_price, info) ==
  2 * current_price * current_price < graham_square2(info)

\* checks += 2, whatever calculate_graham_number returned
graham_checks(info) == 2

\* lines 167-172
graham_points(info) ==
  LET current_price ==
        Get(info, "currentPrice", Get(info, "previousClose", 0))
  IN IF graham_square2(info) # 0 /\ current_price # 0
        /\ BelowGraham(current_price, info)
     THEN 2 ELSE 0

\* lines 174-180
piotroski_points(info) ==
  IF get_piotroski_score(info) >= 7 THEN 2
  ELSE IF get_piotroski_score(info) >= 5 THEN 1 ELSE 0

\* lines 182-210: <<points, checks>> of the four ratio tests
pe_tally(info) ==
  IF Truthy(info.trailingPE)
  THEN <<Bit(0 < info.trailingPE /\ info.trailingPE < 40), 1>>
  ELSE IF Get(info, "trailingEps", 0) < 0 THEN <<0, 1>> ELSE <<0, 0>>

peg_tally(info) ==
  IF info.pegRatio # Absent
  THEN <<Bit(0 < info.pegRatio /\ info.pegRatio < 200), 1>> ELSE <<0, 0>>

roe_tally(info) ==
  IF Truthy(info.returnOnEquity)
  THEN <<Bit(info.returnOnEquity > 10), 1>> ELSE <<0, 0>>

de_tally(info) ==
  IF info.debtToEquity # Absent
  THEN <<Bit(info.debtToEquity < 10000), 1>> ELSE <<0, 0>>

\* "if not info: return 0": fetch_fundamentals returned {}
score_fundamental(info) ==
  IF info = NoInfo
  THEN [score |-> 0, checks |-> 0, value |-> 0, called |-> TRUE] ELSE
  LET score == graham_points(info) + piotroski_points(info)
               + pe_tally(info)[1] + peg_tally(info)[1] + roe_tally(info)[1]
               + de_tally(info)[1]
      checks == graham_checks(info) + 2 + pe_tally(info)[2]
                + peg_tally(info)[2] + roe_tally(info)[2] + de_tally(info)[2]
  IN [score |-> score, checks |-> checks,
      value |-> IF checks > 0 THEN (1000 * score) \div checks ELSE 0,
      called |-> TRUE]

\* ------------------------------------------------ FundSpec
\* the other inputs of the Piotroski score: none sent, two good, all good
Health ==
  {[returnOnAssets |-> Absent, operatingCashflow |-> Absent,
    revenuePerShare |-> Absent, currentRatio |-> Absent],
   [returnOnAssets |-> 5, operatingCashflow |-> 1000,
    revenuePerShare |-> Absent, currentRatio |-> Absent],
   [returnOnAssets |-> 5, operatingCashflow |-> 1000,
    revenuePerShare |-> 50, currentRatio |-> 150]}

InfoInputs ==
  {[f \in DOMAIN NoInfo |-> IF f \in DOMAIN h THEN h[f] ELSE r[f]] :
     h \in Health,
     r \in [trailingEps : {Absent, -5, 0, 10},
            bookValue : {Absent, -20, 100},
            currentPrice : {Absent, 120, 150, 200},
            previousClose : {Absent, 140},
            debtToEquity : {Absent, 50, 5000, 15000},
            trailingPE : {Absent, 20, 50},
            pegRatio : {Absent, 100, 300},
            returnOnEquity : {Absent, 5, 20}]}

ScoreFundamental ==
  /\ ~fund_tally.called
  /\ fund_tally' = score_fundamental(info_arg)
  /\ UNCHANGED <<pipelineVars, envVars, ledgerVars, scoreVars, rankVars,
                 forecastVars, allocVars, mediumVars, info_arg>>

FundInit ==
  /\ PipelineIdle
  /\ NoLedger
  /\ ScoreIdle
  /\ RankIdle
  /\ ForecastIdle
  /\ AllocIdle
  /\ MediumIdle
  /\ info_arg \in InfoInputs
  /\ fund_tally = NoTally

FundNext == ScoreFundamental

FundSpec == FundInit /\ [][FundNext]_vars

\* ================================================================ claims
Universe == {equityList[i] : i \in 1 .. Len(equityList)}
RowSet(rows) == {rows[i] : i \in 1 .. Len(rows)}
PreScores(rows) == {<<rows[i].Ticker, rows[i].Pre_Score>> : i \in 1 .. Len(rows)}
InScan(p) == pc[p] \in {"collect", "heartbeat", "inc_save", "final_save"}

\* the run of p has returned from run_full_analysis, and the file it found
\* at its start held every entity of the universe
RerunOnFullFile(p) ==
  /\ pc[p] = "flag"
  /\ Tickers(fileAtStart[p]) = Universe

\* C1: no entity whose ticker was in the full-scan file when the run read
\* it is submitted to process_stock by that run, whatever runs and kills
\* came before.
C1_ResumeSkips ==
  \A p \in Procs :
    /\ submitted[p] \cap Tickers(fileAtStart[p]) = {}
    /\ okSet[p] \subseteq submitted[p]

\* C1 witness: a run that found a partial file (left by a killed run) has
\* submitted and scored the rest.
C1_Witness ==
  \E p \in Procs :
    /\ pc[p] = "heartbeat"
    /\ Len(fileAtStart[p]) = SaveEvery
    /\ submitted[p] # {}
    /\ okSet[p] # {}

\* C2, as amended: a run that found every entity in the file submits
\* nothing to process_stock and keeps every ticker and Pre_Score; in
\* fetch-only mode it fetches nothing and the file holds the same records;
\* in the other modes the forecast step fetches the history of the top
\* candidates again and rewrites their Forecast_Score and Final_Score.
C2_RerunOnFullFile ==
  \A p \in Procs :
    RerunOnFullFile(p) =>
      /\ submitted[p] = {}
      /\ Tickers(analysisFile) = Universe
      /\ Len(analysisFile) = Len(fileAtStart[p])
      /\ PreScores(analysisFile) = PreScores(fileAtStart[p])
      /\ IF skip_forecast(p)
         THEN /\ fcFetched[p] = {}
              /\ RowSet(analysisFile) = RowSet(fileAtStart[p])
         ELSE fcFetched[p] =
                Tickers(Take(SortDesc(fileAtStart[p], "Pre_Score"), TopK))

\* C2 witness: an analysis run on a full file left by a fetch-only run has
\* returned, with scores in the file that differ from those it found.
C2_Witness ==
  \E p \in Procs :
    /\ RerunOnFullFile(p)
    /\ ~skip_forecast(p)
    /\ fcFetched[p] # {}
    /\ RowSet(analysisFile) # RowSet(fileAtStart[p])

\* C2 as stated: such a run fetches nothing from the provider and leaves
\* the records and their scores as they were, in either mode.
C2_Original ==
  \A p \in Procs :
    RerunOnFullFile(p) =>
      /\ submitted[p] = {}
      /\ fcFetched[p] = {}
      /\ RowSet(analysisFile) = RowSet(fileAtStart[p])

\* C4: an exception while scoring one entity never ends the batch: after
\* it the completion loop is still going while entities remain, every
\* entity collected so far was counted once, and the results are the
\* resumed records followed by one record per entity that succeeded.
C4_EntityIsolation ==
  \A p \in Procs :
    /\ entityExc[p] /\ count[p] < Len(todo[p]) => InScan(p)
    /\ InScan(p) =>
         /\ count[p] = Cardinality(okSet[p]) + fails[p]
         /\ okSet[p] \subseteq submitted[p]
         /\ Cardinality(submitted[p]) = Len(todo[p])
         /\ Len(results[p]) = Len(fileAtStart[p]) + Cardinality(okSet[p])
         /\ Tickers(results[p]) = Tickers(fileAtStart[p]) \cup okSet[p]
         /\ pc[p] = "final_save" => count[p] = Len(todo[p])

\* C4 witness: a scan of the whole universe in which one entity raised has
\* handled every entity, all the others being in the results.
C4_Witness ==
  \E p \in Procs :
    /\ pc[p] = "final_save"
    /\ entityExc[p]
    /\ count[p] = NumStocks
    /\ Cardinality(okSet[p]) = NumStocks - 1

\* C5: whenever the completions of a scan have reached a multiple of 10
\* and the loop is back at its top, the full-scan file holds exactly the
\* records accumulated in memory, and the state file holds the scanned
\* count and the time of the heartbeat.
C5_PeriodicSave ==
  \A p \in Procs :
    pc[p] \in {"collect", "final_save"} /\ ~wr[p]
      /\ count[p] > 0 /\ count[p] % SaveEvery = 0 =>
        /\ analysisFile = CsvRows(results[p])
        /\ stateFile.total_scanned = current_total[p]
        /\ stateFile.last_heartbeat = now

\* C5 witness: ten entities are done, records are in memory, and the loop
\* is about to collect the eleventh.
C5_Witness ==
  \E p \in Procs :
    /\ pc[p] = "collect"
    /\ count[p] = SaveEvery
    /\ Len(results[p]) > 0
    /\ analysisFile # <<>>

\* C7 as stated: whenever main() ends by an exception, the state file it
\* leaves says FAILED.
C7_Original ==
  [][\A p \in Procs :
       pc[p] # "raised" /\ pc'[p] = "raised" =>
         stateFile'.status = STATUS_FAILED]_vars

\* a save_state of the auto-pilot, of pipeline process p
ApSaves == ap_ld # NoState /\ ap_ld' = NoState /\ stateFile' # stateFile
PipelineSaves(p) == ld[p] # NoState /\ ld'[p] = NoState /\ pc'[p] # "killed"
Stale(state, t) == (t - state.last_heartbeat) * TickSeconds > StuckTimeout
NotRunning == {STATUS_IDLE, STATUS_COMPLETED, STATUS_FAILED}

\* C3 as stated: the status only changes along IDLE->RUNNING,
\* RUNNING->COMPLETED, RUNNING->FAILED, COMPLETED->IDLE and FAILED->IDLE.
C3_Original ==
  [][stateFile'.status # stateFile.status =>
       <<stateFile.status, stateFile'.status>> \in
         {<<STATUS_IDLE, STATUS_RUNNING>>, <<STATUS_RUNNING, STATUS_COMPLETED>>,
          <<STATUS_RUNNING, STATUS_FAILED>>, <<STATUS_COMPLETED, STATUS_IDLE>>,
          <<STATUS_FAILED, STATUS_IDLE>>}]_vars

\* C3, as amended: the status changes only in a save of one of its
\* writers, whatever the status was before: a pipeline process writes
\* RUNNING when it starts and enters its stage, COMPLETED at its end and
\* FAILED in its exception handler; the watchdog writes FAILED; the new-day
\* reset writes IDLE; every other save writes back the status its writer
\* loaded.
C3_StatusWriters ==
  [][stateFile'.status # stateFile.status =>
       \/ \E p \in Procs :
            /\ PipelineSaves(p)
            /\ stateFile'.status =
                 IF pc[p] \in {"startup", "stage"} THEN STATUS_RUNNING
                 ELSE IF pc[p] = "complete" THEN STATUS_COMPLETED
                 ELSE IF pc[p] = "failing" THEN STATUS_FAILED
                 ELSE ld[p].status
       \/ /\ ApSaves
          /\ stateFile'.status =
               IF ap_pc = "run_pending" THEN STATUS_IDLE
               ELSE IF ap_pc = "set_failed" THEN STATUS_FAILED
               ELSE ap_ld.status]_vars

\* C3 witness: the reset has written IDLE over the RUNNING of a pipeline
\* process that registered its pid and is still scanning.
C3_Witness ==
  \E p \in Procs :
    /\ pc[p] \in {"collect", "heartbeat"}
    /\ stateFile.pid = p
    /\ stateFile.status = STATUS_IDLE
    /\ stateFile.run_date = today

\* C6 as stated: from one write of the state file to the next, while the
\* status is RUNNING, last_heartbeat does not decrease.
C6_Original ==
  [][stateFile.status = STATUS_RUNNING /\ stateFile'.status = STATUS_RUNNING
       => stateFile'.last_heartbeat >= stateFile.last_heartbeat]_vars

\* C8 as stated: when a run has ended by an exception or a kill and the
\* status is FAILED, recommendations.csv is as it was when the run started.
C8_Original ==
  \A p \in Procs :
    pc[p] \in {"raised", "killed"} /\ stateFile.status = STATUS_FAILED
      => recsFile = recsAtStart[p]

\* C9 as stated: the watchdog is about to kill only while the state file
\* says RUNNING with a heartbeat older than the timeout.
C9_Original ==
  ap_pc = "kill" =>
    stateFile.status = STATUS_RUNNING /\ Stale(stateFile, now)

\* C9, as amended: in an iteration the watchdog goes on to kill exactly
\* when check_stuck reads a state that is RUNNING with a heartbeat older
\* than the timeout, and it takes the pid of that state; it kills no other
\* process; it writes FAILED only after the kill was tried.
C9_Watchdog ==
  [][/\ ap_pc = "check" /\ ap_pc' # "check" =>
          /\ ap_pc' = "kill" <=>
               (stateFile.status = STATUS_RUNNING /\ Stale(stateFile, now))
          /\ ap_pc' = "kill" => stuck_pid' = stateFile.pid
          /\ ap_pc' # "kill" => ap_pc' = "decide"
     /\ ap_pc' = "kill" /\ ap_pc # "kill" => ap_pc = "check"
     /\ ap_pc = "kill" /\ ap_pc' # "kill" =>
          /\ ap_pc' = "set_failed"
          /\ \A p \in Procs :
               pc'[p] # pc[p] => p = stuck_pid /\ pc'[p] = "killed"
     /\ ap_pc' = "set_failed" /\ ap_pc # "set_failed" => ap_pc = "kill"
     /\ ap_pc = "set_failed" /\ ApSaves =>
          stateFile'.status = STATUS_FAILED /\ ap_status' = STATUS_FAILED
    ]_vars

\* C9 witness: the watchdog has killed the process and written FAILED.
C9_Witness ==
  /\ ap_pc = "decide"
  /\ ap_status = STATUS_FAILED
  /\ stateFile.status = STATUS_FAILED
  /\ \E p \in Procs : pc[p] = "killed" /\ stateFile.pid = p

\* C10 as stated: while the status is RUNNING the auto-pilot saves the
\* state file only in the new-day reset.
C10_Original ==
  [][stateFile.status = STATUS_RUNNING /\ ApSaves => ap_pc = "run_pending"]_vars

\* C10, as amended: the auto-pilot saves the state file in the new-day
\* reset, in the watchdog and in run_big_bets_task, whatever the status is
\* by then; it goes to the watchdog's write only through a stuck check, and
\* it starts a stage or run_big_bets_task only in an iteration whose own
\* status is IDLE, COMPLETED or FAILED.
C10_AutoPilotWrites ==
  [][/\ ApSaves => ap_pc \in {"run_pending", "set_failed", "bb_flag"}
     /\ ap_pc' = "set_failed" /\ ap_pc # "set_failed" => ap_pc = "kill"
     /\ ap_pc' = "big_bets" /\ ap_pc # "big_bets" =>
          ap_pc = "decide" /\ ap_status \in NotRunning
     /\ ap_pc' = "bb_flag" /\ ap_pc # "bb_flag" => ap_pc = "big_bets"
     /\ launched' # launched =>
          ap_pc = "decide" /\ ap_status \in NotRunning
    ]_vars

\* C10 witness: the watchdog is saving FAILED over a state file that says
\* RUNNING.
C10_Witness ==
  /\ ap_pc = "set_failed"
  /\ ap_ld # NoState
  /\ stateFile.status = STATUS_RUNNING

\* ------------------------------------------------------------ ledger
LedgerRows == RowSet(historyFile)
Called == updates > 0
\* the held set as the call found it: the HOLD rows of the latest date
HeldAtCall ==
  {r.Ticker : r \in {x \in RowSet(history_df) :
      /\ x.Action = "HOLD"
      /\ \A y \in RowSet(history_df) : y.Date <= x.Date}}
TodayAtCall == Tickers(current_rec_df)
ActionsOf(t) == {new_df[i].Action : i \in {j \in DOMAIN new_df : new_df[j].Ticker = t}}

StartedEmpty == \A r \in LedgerRows : r.Date # SeedDate
\* the top-N set of the previous day, as the ledger recorded it
TopNOn(day) ==
  {r.Ticker : r \in {x \in LedgerRows : x.Date = day /\ x.Action # "DROPOUT"}}
RecordedToday(t, action) ==
  \E r \in LedgerRows : r.Date = today /\ r.Ticker = t /\ r.Action = action
CycleToday == Called /\ new_df[1].Date = today

\* C14: starting from an empty ledger, an entity of the previous day's
\* top-N set is recorded HOLD today when it is in today's set again, and
\* DROPOUT today when it is absent today.
C14_Original ==
  (StartedEmpty /\ CycleToday) =>
    \A t \in TopNOn(today - 1) :
      IF t \in TodayAtCall THEN RecordedToday(t, "HOLD")
      ELSE RecordedToday(t, "DROPOUT")

Flushing(p) == wr[p] /\ pc[p] \in {"inc_save", "final_save", "save_full"}

\* C11: no two processes are flushing the result file at the same time, and
\* no step leaves the file truncated: a process that has opened the file for
\* a flush stops flushing only with its records in the file.
C11_Original ==
  [][/\ \A p, q \in Procs : (Flushing(p) /\ Flushing(q))' => p = q
     /\ \A p \in Procs :
          (Flushing(p) /\ ~Flushing(p)') => analysisFile' # <<>>]_vars

\* ------------------------------------------------- fetch-only mode
FetchOnly(p) == args[p].mode = "fetch-only" /\ pc[p] # "off"
SortedByPre(rows) ==
  \A i, j \in DOMAIN rows : i < j => rows[i].Pre_Score >= rows[j].Pre_Score

\* C12 as stated: a fetch-only run never invokes the forecaster, performs
\* no allocation and leaves the recommendations record set as it found it
\* (looked at when run_fetch_only has returned).
C12_Original ==
  \A p \in Procs :
    (FetchOnly(p) /\ p = launched /\ pc[p] = "flag") =>
      recsFile = recsAtStart[p]

\* C12: a fetch-only run never fetches a history for the forecaster and
\* leaves every record it scored with Forecast_Score 0 and Final_Score equal
\* to Pre_Score; it does rank by Pre_Score, allocate the budget over the
\* top N and write that allocation to the recommendations file.
C12_FetchOnly ==
  \A p \in Procs :
    FetchOnly(p) =>
      /\ fcFetched[p] = {}
      /\ \A i \in DOMAIN results[p] :
           results[p][i].Ticker \in okSet[p] =>
             /\ results[p][i].Forecast_Score = 0
             /\ results[p][i].Final_Score = results[p][i].Pre_Score
      /\ pc[p] \in {"save_recs", "save_full"} =>
           /\ SortedByPre(results[p])
           /\ rec_df[p] = Allocation(results[p])
      /\ (pc[p] = "save_full" /\ p = launched) =>
           recsFile = CsvRows(rec_df[p])

\* a fetch-only run has scored entities and replaced the recommendations
C12_Witness ==
  \E p \in Procs :
    /\ FetchOnly(p)
    /\ pc[p] = "save_full"
    /\ okSet[p] # {}
    /\ recsFile # <<>>
    /\ recsFile # recsAtStart[p]
    /\ \E i \in DOMAIN recsFile : recsFile[i].Qty > 0

\* ------------------------------------------------- process_stock
\* C16: for a row whose history has at least 50 price points process_stock
\* returns a record, with Pre_Score the weighted sum of the three sub-scores,
\* Final_Score equal to it and Forecast_Score 0.
C16_Original ==
  (row_arg # None /\ row_arg.hist >= MinHistory) =>
    /\ scored # None
    /\ scored.Pre_Score =
         (weights.technical * scored.Tech_Score
            + weights.fundamental * scored.Fund_Score
            + weights.sentiment * scored.Sent_Score) \div 1000
    /\ scored.Final_Score = scored.Pre_Score
    /\ scored.Forecast_Score = 0

\* ------------------------------------------------- ranking
FullRanked == ranking = "full"
InRow(t) == CHOOSE r \in RowSet(results_in) : r.Ticker = t
OutRow(t) == CHOOSE r \in RowSet(results_out) : r.Ticker = t
Scanned == Tickers(results_in)

\* C17: in a full analysis the forecaster is called for exactly the top K
\* entities by Pre_Score (all when there are fewer), they get their forecast
\* and the final score computed from it, and every other entity ends with
\* Final_Score equal to its Pre_Score whatever Final_Score it came with.
C17_TopKForecast ==
  FullRanked =>
    /\ forecast_for \subseteq Scanned
    /\ Cardinality(forecast_for) = Min(TopK, Len(results_in))
    /\ \A t \in forecast_for, u \in Scanned \ forecast_for :
         InRow(t).Pre_Score >= InRow(u).Pre_Score
    /\ Tickers(results_out) = Scanned
    /\ Len(results_out) = Len(results_in)
    /\ \A t \in forecast_for :
         /\ OutRow(t).Forecast_Score = ForecastOf(t)
         /\ OutRow(t).Final_Score =
              FinalScore(InRow(t).Pre_Score, ForecastOf(t))
    /\ \A t \in Scanned \ forecast_for :
         /\ OutRow(t).Final_Score = InRow(t).Pre_Score
         /\ OutRow(t).Pre_Score = InRow(t).Pre_Score
         /\ OutRow(t).Forecast_Score = InRow(t).Forecast_Score

\* 22 resumed records: two are outside the top 20 and have lost the final
\* score the file carried
C17_Witness ==
  /\ FullRanked
  /\ Len(results_in) = 22
  /\ Cardinality(forecast_for) = TopK
  /\ \E t \in Scanned \ forecast_for :
       /\ InRow(t).Final_Score = ScoreCap
       /\ InRow(t).Final_Score # InRow(t).Pre_Score
       /\ OutRow(t).Final_Score = InRow(t).Pre_Score

\* C18 as stated: after a full analysis the Final_Score of every entity
\* of the result set, among the top K or not, lies in [0, 0.99].
C18_Original ==
  FullRanked =>
    \A i \in DOMAIN results_out :
      /\ results_out[i].Final_Score >= 0
      /\ results_out[i].Final_Score <= ScoreCap

\* C18: after a full analysis the Final_Score of every entity the
\* forecaster was called for lies in [0, 0.99], whatever the weights; that
\* of every other entity is its Pre_Score, which lies between 0 and the sum
\* of the three weights.
C18_FinalScoreRange ==
  FullRanked =>
    /\ \A t \in forecast_for :
         /\ OutRow(t).Final_Score >= 0
         /\ OutRow(t).Final_Score <= ScoreCap
    /\ \A t \in Scanned \ forecast_for :
         /\ OutRow(t).Final_Score = OutRow(t).Pre_Score
         /\ OutRow(t).Final_Score >= 0
         /\ OutRow(t).Final_Score <=
              weights.technical + weights.fundamental + weights.sentiment
    /\ weights = DefaultWeights => FinalScore(660, 1000) = ScoreCap

\* a boosted entity sits at the cap while an entity outside the top K
\* carries a Pre_Score above it
C18_Witness ==
  /\ FullRanked
  /\ \E t \in forecast_for :
       /\ OutRow(t).Final_Score = ScoreCap
       /\ InRow(t).Pre_Score + (weights.forecast * ForecastOf(t)) \div 1000
            > BoostAbove
  /\ \E t \in Scanned \ forecast_for : OutRow(t).Final_Score > ScoreCap

\* ------------------------------------------------- forecaster
\* C19: every prediction is made by a model that was fit in that same call
\* on the history of that same entity.
C19_Original ==
  \A i \in DOMAIN calls :
    calls[i].used # NoModel =>
      /\ calls[i].used = calls[i].Ticker
      /\ calls[i].trained

\* ------------------------------------------------- allocation
RoundingError == IF variant = "score" THEN 5 * Len(allocated) ELSE 0

\* C20: in both allocation variants every quantity is a non-negative whole
\* number, the whole part of allocation / price, and 0 when the price is not
\* positive; the allocations sum to no more than the budget plus the
\* rounding error (half of the unit of 10 per entity in the score-weighted
\* variant).
C20_Allocation ==
  variant # "none" =>
    /\ Len(allocated) = Len(stock_list)
    /\ \A i \in DOMAIN allocated :
         /\ allocated[i].Qty \in Nat
         /\ allocated[i].Allocation >= 0
         /\ allocated[i].Close <= 0 => allocated[i].Qty = 0
         /\ allocated[i].Close > 0 =>
              /\ allocated[i].Qty * allocated[i].Close
                   <= allocated[i].Allocation
              /\ (allocated[i].Qty + 1) * allocated[i].Close
                   > allocated[i].Allocation
    /\ SumOver(allocated, "Allocation") <= budget_arg + RoundingError
    /\ variant = "equal" =>
         \A i \in DOMAIN allocated :
           /\ allocated[i].Allocation * Len(allocated) <= budget_arg
           /\ (allocated[i].Allocation + 1) * Len(allocated) > budget_arg
    /\ variant = "score" =>
         \A i \in DOMAIN allocated : allocated[i].Allocation % 10 = 0

\* the score-weighted variant has rounded the allocations above the budget,
\* bought whole units of one entity and none of one without a price
C20_Witness ==
  /\ variant = "score"
  /\ SumOver(allocated, "Allocation") > budget_arg
  /\ \E i \in DOMAIN allocated :
       /\ allocated[i].Close > 0
       /\ allocated[i].Qty > 0
       /\ allocated[i].Qty * allocated[i].Close < allocated[i].Allocation
  /\ \E i \in DOMAIN allocated :
       allocated[i].Close = 0 /\ allocated[i].Allocation > 0
         /\ allocated[i].Qty = 0

\* --------------------------------------------- one record per ticker
Unique(rows) == Cardinality(Tickers(rows)) = Len(rows)

\* C21: in every state of the scan, over runs, kills and resumed runs in
\* every entry mode, no two records of the result set have the same ticker,
\* in the memory of the run or in the full-scan file.
C21_UniqueTicker ==
  /\ Unique(analysisFile)
  /\ \A p \in Procs : Unique(results[p])

\* C21 witness: a run resumed on the partial file a killed run left holds
\* the records of that file and records it scored itself.
C21_Witness ==
  \E p \in Procs :
    /\ InScan(p)
    /\ Len(fileAtStart[p]) = SaveEvery
    /\ Tickers(fileAtStart[p]) \subseteq Tickers(results[p])
    /\ okSet[p] # {}
    /\ okSet[p] \subseteq Tickers(results[p])

\* ------------------------------------------- the medium-term picks
MediumRan == scored_df # <<>>

Picked == {final_recs[i].Ticker : i \in 1 .. Len(final_recs)}

\* row r of the scored table comes before the pick in the order
\* (ROI_6to12_Score descending, WinProbability descending)
Outranks(r, pick) ==
  \/ r.ROI_6to12_Score > pick.ROI_Score
  \/ /\ r.ROI_6to12_Score = pick.ROI_Score
     /\ r.WinProbability > pick.Win_Prob

\* C22: run_analysis returns at most three picks, each a different row of
\* the table, in the order (ROI score descending, win probability
\* descending), and no row of the whole table that is left out has a higher
\* ROI score, or the same ROI score and a higher win probability, than a
\* pick; also when no row reaches ROI score 9 and the picks come from the
\* fallback candidates.
C22_TopThree ==
  MediumRan =>
    /\ Len(final_recs) <= MaxRecs
    /\ Len(final_recs) >= 1
    /\ Cardinality(Picked) = Len(final_recs)
    /\ Picked \subseteq Tickers(df_input)
    /\ \A i \in 1 .. Len(final_recs) :
         /\ final_recs[i].Rank = i
         /\ \A j \in 1 .. Len(scored_df) :
              /\ scored_df[j].Ticker = final_recs[i].Ticker =>
                   /\ final_recs[i].ROI_Score = scored_df[j].ROI_6to12_Score
                   /\ final_recs[i].Win_Prob = scored_df[j].WinProbability
              /\ scored_df[j].Ticker \notin Picked =>
                   ~Outranks(scored_df[j], final_recs[i])

\* C22 witness: a table of more than ten rows none of which reaches ROI
\* score 9, with rows of different ROI scores: three picks come from the
\* fallback candidates and rows are left out.
C22_Witness ==
  /\ MediumRan
  /\ Positives(scored_df) = 0
  /\ Len(scored_df) > FallbackHead
  /\ Len(final_recs) = MaxRecs
  /\ \E j \in 1 .. Len(scored_df) :
       /\ scored_df[j].Ticker \notin Picked
       /\ scored_df[j].ROI_6to12_Score < final_recs[MaxRecs].ROI_Score

\* a fitted classifier has decided between picks of equal ROI score
MediumTrained ==
  /\ MediumRan
  /\ \E i \in 1 .. Len(final_recs), j \in 1 .. Len(scored_df) :
       /\ scored_df[j].Ticker \notin Picked
       /\ scored_df[j].ROI_6to12_Score = final_recs[i].ROI_Score
       /\ scored_df[j].WinProbability < final_recs[i].Win_Prob

\* ------------------------------------------- the valuation check
FundCalled == fund_tally.called /\ info_arg # NoInfo

\* points and checks of the checks other than the valuation check
OtherPoints ==
  piotroski_points(info_arg) + pe_tally(info_arg)[1] + peg_tally(info_arg)[1]
  + roe_tally(info_arg)[1] + de_tally(info_arg)[1]

OtherChecks ==
  2 + pe_tally(info_arg)[2] + peg_tally(info_arg)[2] + roe_tally(info_arg)[2]
  + de_tally(info_arg)[2]

PriceOfInfo ==
  Get(info_arg, "currentPrice", Get(info_arg, "previousClose", 0))

\* C23: when the intrinsic value estimate is 0 (EPS or book value missing
\* or not positive) the valuation check adds nothing to the points and
\* nothing to the checks, and the fundamental score is points / checks over
\* the other checks; when the estimate is positive and the price is below
\* it, the check adds 2 points of 2 checks.
C23_Original ==
  FundCalled =>
    /\ graham_square2(info_arg) = 0 =>
         /\ fund_tally.score = OtherPoints
         /\ fund_tally.checks = OtherChecks
         /\ fund_tally.value = (1000 * OtherPoints) \div OtherChecks
    /\ (graham_square2(info_arg) # 0 /\ PriceOfInfo # 0
        /\ BelowGraham(PriceOfInfo, info_arg)) =>
         /\ fund_tally.score = OtherPoints + 2
         /\ fund_tally.checks = OtherChecks + 2

\* ------------------------------------- one pipeline process at a time
AliveProcs == {p \in Procs : Alive(p)}

\* a second pipeline process is started while the first, whose run the
\* midnight reset has set to IDLE, is in its completion loop
ResetWhileRunning ==
  /\ pc[1] = "collect"
  /\ pc[2] = "startup"
  /\ stateFile.status = STATUS_IDLE
  /\ stateFile.run_date = today

\* C24: under the auto-pilot at most one pipeline process is alive at any
\* time, in every interleaving of the loop, the midnight reset and the
\* state writes of the pipeline process.
C24_Original == Cardinality(AliveProcs) <= 1

\* --------------------------------------------- the order of the stages
\* a step of the loop starts main.py in the given mode
Triggered(mode) ==
  \E p \in Procs :
    /\ pc[p] = "off"
    /\ pc'[p] = "startup"
    /\ args'[p].mode = mode

TriggeredBigBets == ap_pc = "decide" /\ ap_pc' = "big_bets"

StagesTriggered ==
  Bit(Triggered("fetch-only")) + Bit(Triggered("analyze-only"))
  + Bit(TriggeredBigBets)

\* the gate of a stage, on a state and a status
Gate(state, status, stage) ==
  /\ state.run_date = today
  /\ status \in {STATUS_IDLE, STATUS_COMPLETED, STATUS_FAILED}
  /\ IF stage = "FETCH" THEN ~state.flags.fetch_complete
     ELSE IF stage = "MODEL"
     THEN state.flags.fetch_complete /\ ~state.flags.model_complete
     ELSE /\ state.flags.fetch_complete
          /\ state.flags.model_complete
          /\ ~state.flags.big_bets_complete

FirstFetchRun ==
  /\ launched = 1
  /\ args[1].mode = "fetch-only"
  /\ InScan(1)

\* C26: the fetch run that follows a midnight reset submits every entity
\* of the universe to process_stock, whatever result file the cycle of the
\* day before has left.
C26_Original == FirstFetchRun => submitted[1] = Universe

\* ---------------------------------------------------------------- C27
AllFlags ==
  /\ stateFile.flags.fetch_complete
  /\ stateFile.flags.model_complete
  /\ stateFile.flags.big_bets_complete

\* the loop is about to start a process and the bound on launches is used up
Blocked ==
  /\ ap_pc = "decide"
  /\ launched = MaxLaunches
  /\ Trigger(ap_state, ap_status, today) \in {"FETCH", "MODEL"}

\* what keeps a day from completing although every step is taken: there is
\* no result file for the BIG BETS task to read, a run never ends, or the
\* bound on launches is used up
Excused ==
  \/ analysisFile = <<>>
  \/ \E p \in Procs : Alive(p)
  \/ Blocked

HeartbeatSaves(p) ==
  /\ pc[p] = "heartbeat"
  /\ ld[p] # NoState
  /\ stateFile' # stateFile

\* two contents of the state file agree on all but the heartbeat fields
SameButHeartbeat(before, after) ==
  /\ after.status = before.status
  /\ after.stage = before.stage
  /\ after.flags = before.flags
  /\ after.run_date = before.run_date

\* C28: the save of update_heartbeat leaves status, stage, flags and
\* run_date of the state file as the last writer left them, whatever the
\* other writers of the file did since update_heartbeat loaded it.
C28_Original ==
  [][\A p \in Procs :
       HeartbeatSaves(p) => SameButHeartbeat(stateFile, stateFile')]_vars

\* ---------------------------------------------------------------- C29
\* no two records of the ledger have the same date and the same entity
OnePerDateTicker ==
  \A i, j \in DOMAIN historyFile :
    (historyFile[i].Date = historyFile[j].Date
     /\ historyFile[i].Ticker = historyFile[j].Ticker) => i = j

\* between two DROPOUT records of an entity there is a HOLD record of it
DropoutOnce ==
  \A i, j \in DOMAIN historyFile :
    (i < j
     /\ historyFile[i].Action = "DROPOUT"
     /\ historyFile[j].Action = "DROPOUT"
     /\ historyFile[i].Ticker = historyFile[j].Ticker)
    => \E k \in i + 1 .. j - 1 :
         /\ historyFile[k].Ticker = historyFile[i].Ticker
         /\ historyFile[k].Action = "HOLD"

\* C29: after any sequence of update_portfolio calls, several on one day
\* included, the ledger has at most one record per date and entity, and an
\* entity that dropped out gets its DROPOUT record once.
C29_Original == OnePerDateTicker /\ DropoutOnce

\* ---------------------------------------------------------------- C30
Reran == rerun_out # <<>>

\* ticker and final score of every record, in ranking order
FinalRanking(rows) ==
  [i \in 1 .. Len(rows) |-> <<rows[i].Ticker, rows[i].Final_Score>>]

\* the rows the second run reads from the result file
Reread == read_csv_to_list(CsvRows(results_out))

\* C30 as stated: a second full analysis over the saved result file, with
\* the same forecasts, gives every entity the same final score and the same
\* ranking as the first.
C30_Original == Reran => FinalRanking(rerun_out) = FinalRanking(results_out)

\* the top candidates of the second run
RerunCandidates == Tickers(top_candidates(Reread))

\* the record of entity t in the result set of the first run
FirstRow(t) == CHOOSE r \in RowSet(results_out) : r.Ticker = t

\* C30: a second full analysis over the saved result file computes every
\* final score from the entity's pre-score and forecast alone (the stored
\* final score plays no part), and gives the same final scores and the same
\* ranking as the first whenever it forecasts the same top candidates.
C30_NoCompounding ==
  Reran =>
    /\ \A i \in DOMAIN rerun_out :
         LET row == rerun_out[i] IN
         /\ row.Pre_Score = FirstRow(row.Ticker).Pre_Score
         /\ row.Final_Score =
              IF row.Ticker \in RerunCandidates
              THEN FinalScore(row.Pre_Score, ForecastOf(row.Ticker))
              ELSE row.Pre_Score
    /\ RerunCandidates = forecast_for
         => FinalRanking(rerun_out) = FinalRanking(results_out)

\* a second run over more than the top candidates, with the candidates of
\* the first run, after a first run that raised a final score above the
\* pre-score
C30_Witness ==
  /\ Reran
  /\ Len(rerun_out) > TopK
  /\ RerunCandidates = forecast_for
  /\ \E i \in DOMAIN results_out :
       results_out[i].Final_Score > results_out[i].Pre_Score
  /\ FinalRanking(rerun_out) = FinalRanking(results_out)

=============================================================================
